---- MODULE Spec2Model ----
(***************************************************************************)
(* Document-to-backlog pipeline of the Confluence Task Generator           *)
(* (src/src/index.js): ranking and de-duplication of work items, semantic  *)
(* classification of sections, the one-hour analysis cache and the         *)
(* sequential issue-creation loop.                                         *)
(***************************************************************************)
EXTENDS Integers, Sequences, FiniteSets, TLC

VARIABLES
  fnIn,          \* input handed to a pure function of the pipeline
  fnOut,         \* its result
  fnOut2,        \* a second result: of applying it again, or of a part of it
  fnPc,          \* "input" | "once" | "twice"
  store,         \* Forge storage: key -> entry or Undefined
  now,           \* Date.now()
  started,       \* requests started so far
  req,           \* per slot: the request it runs, its position and locals
  jiraCalls,     \* per slot: the creation requests sent to Jira, in order
  jiraInFlight   \* per slot: the items whose creation request is unanswered

fnVars == <<fnIn, fnOut, fnOut2, fnPc>>
appVars == <<store, now, started, req, jiraCalls, jiraInFlight>>
vars == <<fnVars, appVars>>

(***************************************************************************)
(* Strings.  JavaScript strings are TLA+ strings; a character is a string  *)
(* of length one.                                                          *)
(***************************************************************************)
UpperChars == "ABCDEFGHIJKLMNOPQRSTUVWXYZ"
LowerChars == "abcdefghijklmnopqrstuvwxyz"
DigitChars == "0123456789"

Min(a, b) == IF a < b THEN a ELSE b
Max(a, b) == IF a > b THEN a ELSE b

CharAt(s, i) == SubSeq(s, i, i)

\* String.prototype.substring(from, to) with 0-based, end-exclusive offsets.
substring(s, from, to) == SubSeq(s, Min(Max(from, 0), Len(s)) + 1, Min(Max(to, 0), Len(s)))

\* String.prototype.slice(from) for a non-negative offset.
sliceFrom(s, from) == substring(s, from, Len(s))

\* 1-based position of character c in str, 0 when absent.
CharIndex(c, str) ==
  LET hits == {i \in 1..Len(str) : CharAt(str, i) = c}
  IN  IF hits = {} THEN 0 ELSE CHOOSE i \in hits : \A j \in hits : i <= j

UpperSet == {CharAt(UpperChars, i) : i \in 1..Len(UpperChars)}
LowerSet == {CharAt(LowerChars, i) : i \in 1..Len(LowerChars)}
DigitSet == {CharAt(DigitChars, i) : i \in 1..Len(DigitChars)}

LowerOf == [c \in UpperSet |-> CharAt(LowerChars, CharIndex(c, UpperChars))]
UpperOf == [c \in LowerSet |-> CharAt(UpperChars, CharIndex(c, LowerChars))]

toLowerChar(c) == IF c \in UpperSet THEN LowerOf[c] ELSE c
toUpperChar(c) == IF c \in LowerSet THEN UpperOf[c] ELSE c

RECURSIVE LowerRange(_, _, _)
LowerRange(s, lo, hi) ==
  IF lo > hi THEN ""
  ELSE IF lo = hi THEN toLowerChar(CharAt(s, lo))
  ELSE LET mid == (lo + hi) \div 2
       IN  LowerRange(s, lo, mid) \o LowerRange(s, mid + 1, hi)

\* String.prototype.toLowerCase
toLowerCase(s) == LowerRange(s, 1, Len(s))

\* String.prototype.startsWith / includes
startsWith(s, p) == Len(p) <= Len(s) /\ SubSeq(s, 1, Len(p)) = p
startsWithAt(s, p, i) == i >= 1 /\ i + Len(p) - 1 <= Len(s) /\ SubSeq(s, i, i + Len(p) - 1) = p
includes(s, p) == \E i \in 1..(Len(s) - Len(p) + 1) : SubSeq(s, i, i + Len(p) - 1) = p

IsLowerAlnum(c) == c \in LowerSet \/ c \in DigitSet

RECURSIVE KeepLowerAlnum(_, _, _)
KeepLowerAlnum(s, lo, hi) ==
  IF lo > hi THEN ""
  ELSE IF lo = hi THEN (IF IsLowerAlnum(CharAt(s, lo)) THEN CharAt(s, lo) ELSE "")
  ELSE LET mid == (lo + hi) \div 2
       IN  KeepLowerAlnum(s, lo, mid) \o KeepLowerAlnum(s, mid + 1, hi)

\* s.replace(/[^a-z0-9]/g, "")
stripNonAlnum(s) == KeepLowerAlnum(s, 1, Len(s))

(***************************************************************************)
(* Regular-expression replacement.  A set of matches is a function from    *)
(* the position a match starts at to its length; String.prototype.replace  *)
(* with the g flag takes them left to right, never overlapping.            *)
(***************************************************************************)
WhiteSpace == {" ", "\n", "\t", "\r", "\f"}

\* The least element of S that is at least k, 0 when there is none.
FirstGE(S, k) ==
  LET T == {x \in S : x >= k}
  IN  IF T = {} THEN 0 ELSE CHOOSE x \in T : \A y \in T : x <= y

\* The greatest element of S, 0 when S is empty.
Last(S) == IF S = {} THEN 0 ELSE CHOOSE x \in S : \A y \in S : y <= x

\* The positions at which one of the literal patterns starts.
Positions(s, pats) ==
  LET firsts == {CharAt(p, 1) : p \in pats}
  IN  {i \in 1..Len(s) : CharAt(s, i) \in firsts /\ \E p \in pats : startsWithAt(s, p, i)}

\* The same without regard to case, the patterns given in lower case.
PositionsCI(s, pats) ==
  LET firsts == {CharAt(p, 1) : p \in pats} \cup {toUpperChar(CharAt(p, 1)) : p \in pats}
  IN  {i \in 1..Len(s) :
         /\ CharAt(s, i) \in firsts
         /\ \E p \in pats : /\ i + Len(p) - 1 <= Len(s)
                             /\ toLowerCase(SubSeq(s, i, i + Len(p) - 1)) = p}

CharPositions(s, chars) == {i \in 1..Len(s) : CharAt(s, i) \in chars}

RECURSIVE ReplaceFrom(_, _, _, _)
ReplaceFrom(s, matches, rep, from) ==
  LET i == FirstGE(DOMAIN matches, from)
  IN  IF i = 0 THEN SubSeq(s, from, Len(s))
      ELSE SubSeq(s, from, i - 1) \o rep \o ReplaceFrom(s, matches, rep, i + matches[i])

replaceAll(s, matches, rep) == ReplaceFrom(s, matches, rep, 1)

\* A literal pattern, matched without regard to case (flags gi); pat is given
\* in lower case.
LiteralMatches(s, pat) == [i \in PositionsCI(s, {pat}) |-> Len(pat)]

\* /<br\s*\/?>/gi
BrMatches(s) ==
  LET nonWs == {i \in 1..Len(s) : CharAt(s, i) \notin WhiteSpace}
      end(i) == LET e == FirstGE(nonWs, i + 3)
                    f == IF e # 0 /\ CharAt(s, e) = "/" THEN e + 1 ELSE e
                IN  IF f # 0 /\ f <= Len(s) /\ CharAt(s, f) = ">" THEN f ELSE 0
  IN  [i \in {j \in PositionsCI(s, {"<br"}) : end(j) # 0} |-> end(i) - i + 1]

\* /<[^>]+>/g
TagMatches(s) ==
  LET gts == CharPositions(s, {">"})
      end(i) == FirstGE(gts, i + 1)
  IN  [i \in {j \in CharPositions(s, {"<"}) : end(j) > j + 1} |-> end(i) - i + 1]

\* A run of at least min characters of the class, taken greedily:
\* /\n{3,}/g with ({"\n"}, 3) and /\s+/g with (WhiteSpace, 1).
RunMatches(s, chars, min) ==
  LET others == {i \in 1..Len(s) : CharAt(s, i) \notin chars}
      runLen(i) == LET e == FirstGE(others, i) IN (IF e = 0 THEN Len(s) + 1 ELSE e) - i
  IN  [i \in {j \in CharPositions(s, chars) : runLen(j) >= min} |-> runLen(i)]

\* String.prototype.trim
trim(s) ==
  LET nonWs == {i \in 1..Len(s) : CharAt(s, i) \notin WhiteSpace}
  IN  IF nonWs = {} THEN "" ELSE SubSeq(s, FirstGE(nonWs, 1), Last(nonWs))

(***************************************************************************)
(* Markup normalizer: stripHtml.  The four entities the code decodes to    *)
(* characters outside ASCII (arrows and dashes) are written in ASCII here. *)
(***************************************************************************)
Entities ==
  << <<"&nbsp;", " ">>, <<"&amp;", "&">>, <<"&lt;", "<">>, <<"&gt;", ">">>,
     <<"&quot;", "\"">>, <<"&#39;", "'">>, <<"&rarr;", "->">>, <<"&larr;", "<-">>,
     <<"&mdash;", "--">>, <<"&ndash;", "-">> >>

\* The replacements of stripHtml, in the order of the chain of replace calls.
StripPass(s, k) ==
  CASE k = 1 -> replaceAll(s, BrMatches(s), "\n")
    [] k = 2 -> replaceAll(s, LiteralMatches(s, "</p>"), "\n\n")
    [] k = 3 -> replaceAll(s, LiteralMatches(s, "</div>"), "\n")
    [] k = 4 -> replaceAll(s, LiteralMatches(s, "</li>"), "\n")
    [] k = 5 -> replaceAll(s, LiteralMatches(s, "</tr>"), "\n")
    [] k = 6 -> replaceAll(s, TagMatches(s), "")
    [] k \in 7..16 -> replaceAll(s, LiteralMatches(s, Entities[k - 6][1]), Entities[k - 6][2])
    [] k = 17 -> replaceAll(s, RunMatches(s, {"\n"}, 3), "\n\n")
    [] k = 18 -> trim(s)

\* Each replacement is applied to the value of the one before it.
RECURSIVE StripFrom(_, _)
StripFrom(s, k) ==
  IF k > 18 THEN s
  ELSE CHOOSE r \in {StripFrom(StripPass(x, k), k + 1) : x \in {s}} : TRUE

stripHtml(html) == StripFrom(html, 1)

(***************************************************************************)
(* Section extractor: parseConfluenceContent, parseSectionContent,         *)
(* extractTableContent.                                                    *)
(***************************************************************************)
\* The matches of /<open[^>]*>([\s\S]*?)<\/close>/gi in s, in order: each a
\* record of the match's first position, the bounds of its captured group
\* and the position behind the match (the regex's lastIndex).  opens and
\* closes are the lower-case literals the tag may start and end with.
RECURSIVE PairMatchesFrom(_, _, _, _, _, _)
PairMatchesFrom(opens, gts, closes, openLen, closeLen, from) ==
  LET i == FirstGE(opens, from)
      g == IF i = 0 THEN 0 ELSE FirstGE(gts, i + openLen)
      c == IF g = 0 THEN 0 ELSE FirstGE(closes, g + 1)
  IN  IF c = 0 THEN <<>>
      ELSE <<[index |-> i, from |-> g + 1, to |-> c - 1, endIndex |-> c + closeLen]>>
           \o PairMatchesFrom(opens, gts, closes, openLen, closeLen, c + closeLen)

PairMatches(s, openPats, closePats) ==
  LET openLen == Len(CHOOSE p \in openPats : TRUE)
      closeLen == Len(CHOOSE p \in closePats : TRUE)
  IN  PairMatchesFrom(PositionsCI(s, openPats), CharPositions(s, {">"}),
                      PositionsCI(s, closePats), openLen, closeLen, 1)

Group(s, m) == SubSeq(s, m.from, m.to)

\* The non-empty elements of a sequence, in order.
RECURSIVE NonEmpty(_)
NonEmpty(seq) ==
  IF seq = <<>> THEN <<>>
  ELSE (IF Len(Head(seq)) = 0 THEN <<>> ELSE <<Head(seq)>>) \o NonEmpty(Tail(seq))

extractTableContent(tableHtml) ==
  LET rowMs == PairMatches(tableHtml, {"<tr"}, {"</tr>"})
      cellsOf(rowHtml) ==
        LET cellMs == PairMatches(rowHtml, {"<td", "<th"}, {"</td>", "</th>"})
        IN  [k \in 1..Len(cellMs) |-> trim(stripHtml(Group(rowHtml, cellMs[k])))]
  IN  NonEmpty([r \in 1..Len(rowMs) |-> cellsOf(Group(tableHtml, rowMs[r]))])

parseSectionContent(html) ==
  LET liMs == PairMatches(html, {"<li"}, {"</li>"})
      codeMs == PairMatches(html, {"<code"}, {"</code>"})
      tableMs == PairMatches(html, {"<table"}, {"</table>"})
  IN  [ text |-> stripHtml(html),
        bullets |-> NonEmpty([k \in 1..Len(liMs) |-> trim(stripHtml(Group(html, liMs[k])))]),
        numberedItems |-> <<>>,
        codeBlocks |-> NonEmpty([k \in 1..Len(codeMs) |-> trim(stripHtml(Group(html, codeMs[k])))]),
        tables |-> NonEmpty([k \in 1..Len(tableMs) |-> extractTableContent(Group(html, tableMs[k]))]) ]

\* Every section is filed at level 1, whatever its heading.
MkSectionFlat(level, title, sc) ==
  [ level |-> 1, title |-> title, content |-> sc.text, bullets |-> sc.bullets,
    numberedItems |-> sc.numberedItems, codeBlocks |-> sc.codeBlocks, tables |-> sc.tables ]

MkSection(level, title, sc) ==
  [ level |-> level, title |-> title, content |-> sc.text, bullets |-> sc.bullets,
    numberedItems |-> sc.numberedItems, codeBlocks |-> sc.codeBlocks, tables |-> sc.tables ]

\* Array.prototype.join
RECURSIVE join(_, _)
join(parts, sep) ==
  IF parts = <<>> THEN ""
  ELSE IF Len(parts) = 1 THEN parts[1]
  ELSE parts[1] \o sep \o join(Tail(parts), sep)

HeadingOpens == {"<h1", "<h2", "<h3", "<h4", "<h5", "<h6"}
HeadingCloses == {"</h1>", "</h2>", "</h3>", "</h4>", "</h5>", "</h6>"}

\* html.replace(/\r\n/g, "\n").replace(/\r/g, "\n")
normalizeLineEnds(html) ==
  LET p1 == replaceAll(html, LiteralMatches(html, "\r\n"), "\n")
  IN  replaceAll(p1, LiteralMatches(p1, "\r"), "\n")

parseConfluenceContent(html) ==
  IF html = "" THEN [sections |-> <<>>, plainText |-> ""]
  ELSE
    LET processed == normalizeLineEnds(html)
        headings == PairMatches(processed, HeadingOpens, HeadingCloses)
        n == Len(headings)
        levelOf(h) == CharIndex(CharAt(processed, h.index + 2), DigitChars) - 1
        titleOf(h) == trim(stripHtml(Group(processed, h)))
        bodyOf(i) == SubSeq(processed, headings[i].endIndex,
                            IF i < n THEN headings[i + 1].index - 1 ELSE Len(processed))
        contentOf == [i \in 1..n |-> parseSectionContent(bodyOf(i))]
        whole == parseSectionContent(processed)
    IN  IF n = 0
        THEN [ sections |-> <<MkSection(1, "Main Content", whole)>>,
               plainText |-> whole.text ]
        ELSE [ sections |-> [i \in 1..n |->
                              MkSection(levelOf(headings[i]), titleOf(headings[i]), contentOf[i])],
               plainText |-> join([i \in 1..n |->
                              "## " \o titleOf(headings[i]) \o "\n" \o contentOf[i].text], "\n\n") ]

(***************************************************************************)
(* Ranking and de-duplication: deduplicateAndPrioritize.                   *)
(***************************************************************************)
KeyLen == 40

\* const priorityOrder = { High: 0, Medium: 1, Low: 2, Highest: -1, Lowest: 3 }
priorityOrder ==
  [p \in {"High", "Medium", "Low", "Highest", "Lowest"} |->
     CASE p = "High" -> 0
       [] p = "Medium" -> 1
       [] p = "Low" -> 2
       [] p = "Highest" -> 0 - 1
       [] p = "Lowest" -> 3]

\* (priorityOrder[x.priority] || 1): a missing entry and the value 0 are both
\* falsy in JavaScript and are replaced by 1.
sortRank(p) ==
  IF p \in DOMAIN priorityOrder /\ priorityOrder[p] # 0 THEN priorityOrder[p] ELSE 1

\* The same insertion placing x in front of the elements of equal rank: a sort
\* that does not keep ties in their original order.
InsertUnstable(sorted, x) ==
  LET before == {i \in 1..Len(sorted) : sortRank(sorted[i].priority) < sortRank(x.priority)}
      k == IF before = {} THEN 0 ELSE CHOOSE i \in before : \A j \in before : j <= i
  IN  SubSeq(sorted, 1, k) \o <<x>> \o SubSeq(sorted, k + 1, Len(sorted))

\* Insert x behind every element whose rank is not larger: the position a
\* stable sort gives it.
InsertStable(sorted, x) ==
  LET before == {i \in 1..Len(sorted) : sortRank(sorted[i].priority) <= sortRank(x.priority)}
      k == IF before = {} THEN 0 ELSE CHOOSE i \in before : \A j \in before : j <= i
  IN  SubSeq(sorted, 1, k) \o <<x>> \o SubSeq(sorted, k + 1, Len(sorted))

RECURSIVE SortFrom(_, _, _)
SortFrom(items, i, acc) ==
  IF i > Len(items) THEN acc ELSE SortFrom(items, i + 1, InsertStable(acc, items[i]))

\* items.sort((a, b) => rank(a) - rank(b)); Array.prototype.sort is stable.
sortByPriority(items) == SortFrom(items, 1, <<>>)

\* item.title.toLowerCase().replace(/[^a-z0-9]/g, "").substring(0, 40)
normalizedTitle(title) == substring(stripNonAlnum(toLowerCase(title)), 0, KeyLen)

RECURSIVE UniqueFrom(_, _, _, _)
UniqueFrom(items, i, seenTitles, unique) ==
  IF i > Len(items) THEN unique
  ELSE LET key == normalizedTitle(items[i].title)
       IN  IF key \in seenTitles
           THEN UniqueFrom(items, i + 1, seenTitles, unique)
           ELSE UniqueFrom(items, i + 1, seenTitles \cup {key}, Append(unique, items[i]))

deduplicateAndPrioritize(items) == UniqueFrom(sortByPriority(items), 1, {}, <<>>)

(***************************************************************************)
(* Document classifier: detectDocumentType, extractProjectName.            *)
(***************************************************************************)
includesAny(s, pats) == \E p \in pats : includes(s, p)

detectDocumentType(text, title) ==
  LET combined == toLowerCase(title) \o " " \o toLowerCase(text)
  IN  IF includesAny(combined, {"prd", "product requirement", "specification"}) THEN "prd"
      ELSE IF includesAny(combined, {"architecture", "technical design", "system design"})
        THEN "architecture"
      ELSE IF includes(combined, "api") /\ includes(combined, "endpoint") THEN "api-spec"
      ELSE IF includesAny(combined, {"mvp", "minimum viable", "prototype"}) THEN "mvp"
      ELSE IF includesAny(combined, {"user story", "user stories", "acceptance criteria"})
        THEN "user-stories"
      ELSE IF includesAny(combined, {"onboarding", "getting started"}) THEN "onboarding"
      ELSE IF includesAny(combined, {"release", "changelog"}) THEN "release-notes"
      ELSE IF includesAny(combined, {"bug", "issue"}) THEN "bug-report"
      ELSE "general"

LineBreaks == {"\n", "\r"}
WordChars == UpperSet \cup LowerSet \cup DigitSet \cup {"_"}
AlnumChars == UpperSet \cup LowerSet \cup DigitSet

\* The least end e >= from of a group (.+?) that starts at from, holds no line
\* break and is followed by \s+ and then one of the keywords; 0 when none.
LazyGroupEnd(s, from, keywords) ==
  LET ls == toLowerCase(s)
      kw == Positions(ls, keywords)
      breaks == CharPositions(s, LineBreaks)
      nonWs == {i \in 1..Len(s) : CharAt(s, i) \notin WhiteSpace}
      firstBreak == FirstGE(breaks, from)
      ok(e) == /\ firstBreak = 0 \/ e < firstBreak
               /\ e + 1 <= Len(s)
               /\ CharAt(s, e + 1) \in WhiteSpace
               /\ \E k \in kw : k > e + 1 /\ FirstGE(nonWs, e + 1) = k
  IN  FirstGE({e \in from..Len(s) : ok(e)}, from)

\* /^(.+?)\s+(?:app|application|project|prd|mvp|spec|design)/i
ProjectPattern1(title) ==
  LET e == LazyGroupEnd(title, 1, {"app", "application", "project", "prd", "mvp", "spec", "design"})
  IN  IF e = 0 THEN "" ELSE SubSeq(title, 1, e)

\* /(?:for|about)\s+(.+?)\s+(?:app|application|project)/i: the leftmost
\* "for" or "about" that leads to a match; \s+ gives back white space to the
\* group when the match needs it.
ProjectPattern2(title) ==
  LET ls == toLowerCase(title)
      nonWs == {i \in 1..Len(title) : CharAt(title, i) \notin WhiteSpace}
      kws == {"app", "application", "project"}
      afterWord(p) == IF startsWithAt(ls, "for", p) THEN p + 3 ELSE p + 5
      runEnd(p) == LET b == FirstGE(nonWs, afterWord(p)) IN IF b = 0 THEN Len(title) + 1 ELSE b
      starts(p) == {g \in (afterWord(p) + 1)..runEnd(p) : LazyGroupEnd(title, g, kws) # 0}
      cands == {p \in Positions(ls, {"for", "about"}) : starts(p) # {}}
      p0 == FirstGE(cands, 1)
      g0 == Last(starts(p0))
  IN  IF p0 = 0 THEN "" ELSE SubSeq(title, g0, LazyGroupEnd(title, g0, kws))

\* /^([A-Z][a-zA-Z0-9]+(?:Notes|App|Hub|Manager|Tracker|Tool))/
ProjectPattern3(title) ==
  LET suffixes == {"Notes", "App", "Hub", "Manager", "Tracker", "Tool"}
      others == {i \in 1..Len(title) : CharAt(title, i) \notin AlnumChars}
      stop == LET e == FirstGE(others, 2) IN IF e = 0 THEN Len(title) + 1 ELSE e
      ends == {st + Len(x) - 1 : <<st, x>> \in
                 {<<st, x>> \in (3..Len(title)) \X suffixes :
                    startsWithAt(title, x, st) /\ st + Len(x) - 1 < stop}}
  IN  IF Len(title) >= 1 /\ CharAt(title, 1) \in UpperSet /\ ends # {}
      THEN SubSeq(title, 1, Last(ends)) ELSE ""

\* title.split(/\s+/)[0]
firstWord(title) ==
  LET ws == CharPositions(title, WhiteSpace)
  IN  IF ws = {} THEN title ELSE SubSeq(title, 1, FirstGE(ws, 1) - 1)

extractProjectName(title, text) ==
  IF ProjectPattern1(title) # "" THEN trim(ProjectPattern1(title))
  ELSE IF ProjectPattern2(title) # "" THEN trim(ProjectPattern2(title))
  ELSE IF ProjectPattern3(title) # "" THEN trim(ProjectPattern3(title))
  ELSE IF firstWord(title) # "" THEN firstWord(title)
  ELSE "Project"

(***************************************************************************)
(* Item generators.  The templates' backtick, which a TLA+ string cannot    *)
(* hold, is written as an apostrophe.                                      *)
(***************************************************************************)
MkItem(title, description, issueType, labels, priority) ==
  [ title |-> title, description |-> description, issueType |-> issueType,
    labels |-> labels, priority |-> priority ]

\* Array.prototype.slice(0, n); Array.prototype.filter is SelectSeq.
take(seq, n) == SubSeq(seq, 1, Min(n, Len(seq)))

\* The concatenation of pre \o x \o post over the elements x of seq.
RECURSIVE lines(_, _, _)
lines(seq, pre, post) ==
  IF seq = <<>> THEN "" ELSE pre \o Head(seq) \o post \o lines(Tail(seq), pre, post)

appWord(docType) == IF docType = "mvp" THEN "MVP" ELSE "application"

IsFolderItem(b) == includesAny(b, {"/", "src", "component", "hook", "util"})
IsToolingItem(b) ==
  includesAny(toLowerCase(b), {"eslint", "prettier", "typescript", "vite", "webpack", "npm"})

createSetupStory(section, projectName, projectKey, docType) ==
  LET folderItems == SelectSeq(section.bullets, IsFolderItem)
      toolingItems == SelectSeq(section.bullets, IsToolingItem)
      description ==
        "## Description\n\n"
        \o "Set up the initial project structure and tooling for the " \o projectName \o " "
        \o appWord(docType)
        \o " so that the team can implement features quickly and consistently.\n\n"
        \o "### Include:\n\n"
        \o (IF docType = "mvp" \/ includes(toLowerCase(section.content), "react")
            THEN "- Initialize a new React-based project (Create React App, Vite, or similar).\n"
            ELSE "- Initialize the project with appropriate tooling.\n")
        \o (IF Len(folderItems) > 0
            THEN "- Create recommended folder structure:\n" \o lines(folderItems, "  - '", "'\n")
            ELSE "- Create recommended folder structure based on project conventions.\n")
        \o (IF Len(toolingItems) > 0
            THEN "- Configure tooling:\n" \o lines(toolingItems, "  - ", "\n")
            ELSE "- Configure basic tooling (linting, formatting, build scripts).\n")
        \o "- Add a minimal global CSS reset and base typography.\n"
        \o "- Add a simple app shell that renders a placeholder layout.\n\n"
        \o "## Acceptance Criteria\n\n"
        \o "- [ ] Project boots successfully with 'npm run dev' or 'npm start'.\n"
        \o "- [ ] The folder structure matches the defined convention.\n"
        \o "- [ ] The app renders a basic layout structure.\n"
        \o "- [ ] Linting and formatting tools are configured and can be run via npm scripts.\n"
        \o "- [ ] Project is committed to the repository with an initial README.\n"
  IN  MkItem("Set up " \o projectName \o " project structure and tooling", description, "Story",
             <<"frontend", IF docType = "mvp" THEN "mvp" ELSE "setup", "scaffolding",
               toLowerCase(projectName)>>,
             "High")

IsFieldItem(b) ==
  includes(b, ":") \/ includesAny(toLowerCase(b), {"id", "string", "number", "boolean"})

\* title.match(/(\w+)\s+(?:data|model|storage|persistence)/i): the first word
\* that white space and one of the keywords follow; "" when there is none.
entityWord(title) ==
  LET ls == toLowerCase(title)
      n == Len(title)
      kw == Positions(ls, {"data", "model", "storage", "persistence"})
      nonWs == {i \in 1..n : CharAt(title, i) \notin WhiteSpace}
      nonWord == {i \in 1..n : CharAt(title, i) \notin WordChars}
      wordEnd(p) == LET e == FirstGE(nonWord, p) IN (IF e = 0 THEN n + 1 ELSE e) - 1
      ok(p) == /\ CharAt(title, p) \in WordChars
               /\ wordEnd(p) + 1 <= n
               /\ CharAt(title, wordEnd(p) + 1) \in WhiteSpace
               /\ FirstGE(nonWs, wordEnd(p) + 1) \in kw
      p0 == FirstGE({p \in 1..n : ok(p)}, 1)
  IN  IF p0 = 0 THEN "" ELSE SubSeq(title, p0, wordEnd(p0))

createDataModelStory(section, projectName, projectKey, docType) ==
  LET fieldItems == SelectSeq(section.bullets, IsFieldItem)
      lc == toLowerCase(section.content)
      usesLocalStorage == includesAny(lc, {"localstorage", "local storage"})
      usesDatabase == includesAny(lc, {"database", "mongodb", "postgres"})
      entityName == IF entityWord(section.title) # "" THEN entityWord(section.title) ELSE "entity"
      lowerEntity == toLowerCase(entityName)
      description ==
        "## Description\n\n"
        \o "Implement a reusable hook/module to manage the " \o lowerEntity
        \o " data model and persist data"
        \o (IF usesLocalStorage THEN " in localStorage"
            ELSE IF usesDatabase THEN " in the database" ELSE "")
        \o ". This will be the foundation for all " \o lowerEntity
        \o "-related behavior in the " \o appWord(docType) \o ".\n\n"
        \o "### Include:\n\n"
        \o "- Define a basic " \o entityName \o " shape, for example:\n"
        \o (IF Len(fieldItems) > 0 THEN lines(take(fieldItems, 8), "  - '", "'\n")
            ELSE "  - 'id: string'\n" \o "  - 'createdAt: number'\n" \o "  - 'updatedAt: number'\n")
        \o "\n- Implement a 'use" \o entityName \o "s' hook under 'src/hooks/' that:\n"
        \o "  - Initializes data from storage on first load.\n"
        \o "  - Provides CRUD functions (create, read, update, delete).\n"
        \o "  - Automatically saves changes to storage.\n"
        \o "\n- Add utilities in 'src/utils/' for:\n"
        \o "  - Generating unique IDs.\n"
        \o "  - Sorting and filtering data.\n\n"
        \o "## Acceptance Criteria\n\n"
        \o "- [ ] 'use" \o entityName \o "s' hook is implemented and returns state and CRUD functions.\n"
        \o "- [ ] Data is rehydrated from storage on page refresh.\n"
        \o "- [ ] Any data change is reflected in storage immediately or on debounce.\n"
        \o "- [ ] If storage is empty, the app starts with appropriate default state.\n"
        \o "- [ ] The data model and hook are covered by tests OR manual test steps are documented.\n"
  IN  MkItem("Implement " \o lowerEntity \o " data model and "
               \o (IF usesLocalStorage THEN "localStorage" ELSE "") \o "persistence hook",
             description, "Story",
             <<"frontend", IF usesLocalStorage THEN "localstorage" ELSE "data",
               "state-management", toLowerCase(projectName)>>,
             "High")

IsComponentBullet(b) ==
  \/ Len(b) >= 1 /\ CharAt(b, 1) \in UpperSet
  \/ includesAny(toLowerCase(b), {"component", "sidebar", "editor", "list", "header",
                                  "footer", "modal", "form", "button"})

\* comp.split(/\s*[-:,]\s*/)[0].trim(): the text in front of the first
\* separator (the code also splits at an en dash and an em dash).
componentNameOf(comp) ==
  LET seps == CharPositions(comp, {"-", ":", ","})
  IN  trim(IF seps = {} THEN comp ELSE SubSeq(comp, 1, FirstGE(seps, 1) - 1))

componentStory(comp, projectName) ==
  MkItem("Implement " \o componentNameOf(comp) \o " component",
         "## Description\n\n"
         \o "Implement the " \o componentNameOf(comp) \o " component for " \o projectName \o ".\n\n"
         \o "### Details:\n" \o comp \o "\n\n"
         \o "## Acceptance Criteria\n\n"
         \o "- [ ] Component renders correctly with all variants.\n"
         \o "- [ ] Component handles edge cases (empty state, loading, errors).\n"
         \o "- [ ] Component is accessible and keyboard navigable.\n"
         \o "- [ ] Component is properly typed.\n",
         "Task", <<"frontend", "ui", toLowerCase(projectName)>>, "Medium")

createUIComponentStories(section, projectName, projectKey, docType) ==
  LET componentBullets == SelectSeq(section.bullets, IsComponentBullet)
      description ==
        "## Description\n\n"
        \o "Implement the core UI components for " \o projectName
        \o " that enable the main user interactions.\n\n"
        \o "### Components to Implement:\n\n"
        \o lines(componentBullets, "- **", "**\n")
        \o "\n### Requirements:\n\n"
        \o "- Components should be reusable and follow project conventions.\n"
        \o "- Use consistent styling approach (CSS modules, styled-components, or Tailwind).\n"
        \o "- Ensure accessibility (keyboard navigation, ARIA labels).\n\n"
        \o "## Acceptance Criteria\n\n"
        \o "- [ ] All listed components are implemented and render correctly.\n"
        \o "- [ ] Components are properly typed (if using TypeScript).\n"
        \o "- [ ] Components handle loading, error, and empty states where applicable.\n"
        \o "- [ ] Styling is consistent with design specifications.\n"
        \o "- [ ] Components are accessible and keyboard navigable.\n"
  IN  IF Len(componentBullets) > 3
      THEN <<MkItem("Implement core UI components for " \o projectName, description, "Story",
                    <<"frontend", "ui", "components", toLowerCase(projectName)>>, "High")>>
      ELSE [k \in 1..Len(componentBullets) |-> componentStory(componentBullets[k], projectName)]

createAPIStory(section, projectName, projectKey, docType) ==
  LET description ==
        "## Description\n\n"
        \o "Implement API integration layer for " \o projectName
        \o " to enable data synchronization and backend communication.\n\n"
        \o "### Include:\n\n"
        \o (IF Len(section.bullets) > 0 THEN lines(take(section.bullets, 6), "- ", "\n")
            ELSE "- Set up API client with proper error handling.\n"
                 \o "- Implement authentication flow if required.\n"
                 \o "- Create service functions for CRUD operations.\n")
        \o "\n## Acceptance Criteria\n\n"
        \o "- [ ] API client is properly configured.\n"
        \o "- [ ] Error handling provides meaningful feedback.\n"
        \o "- [ ] Network requests are properly typed.\n"
        \o "- [ ] Loading states are handled in the UI.\n"
        \o "- [ ] API calls are tested with mock data.\n"
  IN  MkItem("Implement API integration for " \o projectName, description, "Story",
             <<"api", "integration", "backend", toLowerCase(projectName)>>, "Medium")

ActionVerbs ==
  {"implement", "create", "build", "add", "enable", "support", "integrate", "configure",
   "set up", "design", "develop"}

TitleMax == 80
TitleCut == 77
TitleWordBreak == 50

extractFeatureName(bullet) ==
  LET \* .replace(/^[-*]\s*/, "") (the code also strips a leading bullet sign)
      nonWs == {i \in 1..Len(bullet) : CharAt(bullet, i) \notin WhiteSpace}
      unmarked == IF Len(bullet) >= 1 /\ CharAt(bullet, 1) \in {"-", "*"}
                  THEN (IF FirstGE(nonWs, 2) = 0 THEN ""
                        ELSE SubSeq(bullet, FirstGE(nonWs, 2), Len(bullet)))
                  ELSE bullet
      cleaned == trim(replaceAll(unmarked, RunMatches(unmarked, WhiteSpace, 1), " "))
      truncated == substring(cleaned, 0, TitleCut)
      lastSpace == Last(CharPositions(truncated, {" "})) - 1
      name == IF Len(cleaned) > TitleMax
              THEN (IF lastSpace > TitleWordBreak
                    THEN substring(truncated, 0, lastSpace) \o "..."
                    ELSE truncated \o "...")
              ELSE cleaned
      startsWithVerb == \E v \in ActionVerbs : startsWith(toLowerCase(name), v)
      action == IF startsWithVerb THEN name
                ELSE IF startsWith(toLowerCase(name), "the ")
                  THEN "Implement " \o sliceFrom(name, 4)
                ELSE "Implement " \o toLowerChar(substring(name, 0, 1)) \o sliceFrom(name, 1)
  IN  toUpperChar(substring(action, 0, 1)) \o sliceFrom(action, 1)

MinBulletLen == 15

\* The concatenation of the sequences of a sequence.
RECURSIVE flatten(_)
flatten(seqs) == IF seqs = <<>> THEN <<>> ELSE Head(seqs) \o flatten(Tail(seqs))

featureStory(bullet, index, projectName) ==
  MkItem(extractFeatureName(bullet),
         "## Description\n\n"
         \o "Implement the following feature for " \o projectName \o ":\n\n"
         \o "> " \o bullet \o "\n\n"
         \o "## Acceptance Criteria\n\n"
         \o "- [ ] Feature works as described.\n"
         \o "- [ ] UI is intuitive and matches design.\n"
         \o "- [ ] Edge cases are handled gracefully.\n"
         \o "- [ ] Feature is accessible.\n"
         \o "- [ ] Changes are tested.\n",
         "Story", <<"feature", toLowerCase(projectName)>>,
         IF index = 0 THEN "High" ELSE "Medium")

createFeatureStories(section, projectName, projectKey, docType) ==
  LET bullets == take(section.bullets, 5)
  IN  flatten([k \in 1..Len(bullets) |->
        IF Len(bullets[k]) < MinBulletLen THEN <<>>
        ELSE <<featureStory(bullets[k], k - 1, projectName)>>])

requirementStory(bullet, projectName) ==
  MkItem(extractFeatureName(bullet),
         "## Description\n\n"
         \o "Implement the following requirement:\n\n"
         \o "> " \o bullet \o "\n\n"
         \o "## Acceptance Criteria\n\n"
         \o "- [ ] Requirement is fully implemented.\n"
         \o "- [ ] Implementation is tested.\n"
         \o "- [ ] Documentation is updated.\n",
         "Story", <<"requirement", toLowerCase(projectName)>>, "High")

createRequirementStories(section, projectName, projectKey, docType) ==
  LET bullets == take(section.bullets, 5)
  IN  flatten([k \in 1..Len(bullets) |->
        IF Len(bullets[k]) < MinBulletLen THEN <<>>
        ELSE <<requirementStory(bullets[k], projectName)>>])

createFutureStories(section, projectName, projectKey, docType) ==
  LET bullets == take(section.bullets, 3)
  IN  flatten([k \in 1..Len(bullets) |->
        IF Len(bullets[k]) < MinBulletLen THEN <<>>
        ELSE <<MkItem(extractFeatureName(bullets[k]),
                      "## Description\n\n"
                      \o "Future enhancement for " \o projectName \o ":\n\n"
                      \o "> " \o bullets[k] \o "\n\n"
                      \o "## Notes\n\n"
                      \o "- This is a future/nice-to-have item.\n"
                      \o "- Priority should be reassessed when MVP is complete.\n",
                      "Story", <<"future", "nice-to-have", toLowerCase(projectName)>>,
                      "Low")>>])

analyzeBulletsForStories(section, projectName, projectKey, docType) ==
  IF Len(section.bullets) >= 2 /\ Len(section.title) > 3
  THEN <<MkItem("Implement " \o section.title,
                "## Description\n\n"
                \o "Implement the \"" \o section.title \o "\" functionality for "
                \o projectName \o ".\n\n"
                \o "### Requirements:\n\n"
                \o lines(take(section.bullets, 6), "- ", "\n")
                \o "\n## Acceptance Criteria\n\n"
                \o "- [ ] All requirements above are implemented.\n"
                \o "- [ ] Implementation is tested.\n"
                \o "- [ ] Documentation is updated.\n"
                \o "- [ ] Code follows project standards.\n",
                "Story", <<"feature", toLowerCase(projectName)>>, "Medium")>>
  ELSE <<>>

PreviewLen == 500

createFallbackStory(pageTitle, plainText, projectKey) ==
  LET projectName == extractProjectName(pageTitle, plainText)
      contentPreview == IF Len(plainText) > PreviewLen
                        THEN substring(plainText, 0, PreviewLen) \o "..." ELSE plainText
  IN  MkItem("Review and implement: " \o pageTitle,
             "## Description\n\n"
             \o "Review and implement the requirements documented in \"" \o pageTitle \o "\".\n\n"
             \o "### Document Summary:\n\n" \o contentPreview \o "\n\n"
             \o "## Acceptance Criteria\n\n"
             \o "- [ ] All documented requirements are reviewed.\n"
             \o "- [ ] Requirements are broken down into smaller tasks if needed.\n"
             \o "- [ ] Implementation plan is created.\n"
             \o "- [ ] Stakeholders are aligned on scope.\n",
             "Story", <<"needs-breakdown", "planning", toLowerCase(projectName)>>, "Medium")

(***************************************************************************)
(* Per-section dispatch and the whole analysis.                            *)
(***************************************************************************)
SkipWords ==
  {"overview", "introduction", "background", "summary", "table of contents", "version history"}

\* The chain with the data group tested in front of the setup group.
sectionKindDataFirst(section) ==
  LET lowerTitle == toLowerCase(section.title)
  IN  IF includesAny(lowerTitle, SkipWords) THEN "skip"
      ELSE IF includesAny(lowerTitle, {"data", "model", "storage", "database", "persistence"})
        THEN "data"
      ELSE IF includesAny(lowerTitle, {"structure", "folder", "architecture", "setup", "tooling"})
        THEN "setup"
      ELSE IF includesAny(lowerTitle, {"component", "ui", "interface", "view", "screen"})
        THEN "ui"
      ELSE IF includesAny(lowerTitle, {"api", "endpoint", "service", "integration"}) THEN "api"
      ELSE IF includesAny(lowerTitle, {"feature", "functionality", "capability"}) THEN "feature"
      ELSE IF includesAny(lowerTitle, {"requirement", "scope"}) THEN "requirement"
      ELSE IF includesAny(lowerTitle, {"future", "roadmap", "backlog", "nice to have"})
        THEN "future"
      ELSE IF Len(section.bullets) > 0 THEN "bullets"
      ELSE "none"

\* The generator the title of a section selects: the first group of the
\* if / else-if chain one of whose keywords the lower-cased title contains.
sectionKind(section) ==
  LET lowerTitle == toLowerCase(section.title)
  IN  IF includesAny(lowerTitle, SkipWords) THEN "skip"
      ELSE IF includesAny(lowerTitle, {"structure", "folder", "architecture", "setup", "tooling"})
        THEN "setup"
      ELSE IF includesAny(lowerTitle, {"data", "model", "storage", "database", "persistence"})
        THEN "data"
      ELSE IF includesAny(lowerTitle, {"component", "ui", "interface", "view", "screen"})
        THEN "ui"
      ELSE IF includesAny(lowerTitle, {"api", "endpoint", "service", "integration"}) THEN "api"
      ELSE IF includesAny(lowerTitle, {"feature", "functionality", "capability"}) THEN "feature"
      ELSE IF includesAny(lowerTitle, {"requirement", "scope"}) THEN "requirement"
      ELSE IF includesAny(lowerTitle, {"future", "roadmap", "backlog", "nice to have"})
        THEN "future"
      ELSE IF Len(section.bullets) > 0 THEN "bullets"
      ELSE "none"

analyzeSectionForBacklogItems(section, sectionIndex, docType, projectName, projectKey) ==
  LET kind == sectionKind(section)
  IN  CASE kind = "setup" -> <<createSetupStory(section, projectName, projectKey, docType)>>
        [] kind = "data" -> <<createDataModelStory(section, projectName, projectKey, docType)>>
        [] kind = "ui" -> createUIComponentStories(section, projectName, projectKey, docType)
        [] kind = "api" -> <<createAPIStory(section, projectName, projectKey, docType)>>
        [] kind = "feature" -> createFeatureStories(section, projectName, projectKey, docType)
        [] kind = "requirement" ->
             createRequirementStories(section, projectName, projectKey, docType)
        [] kind = "future" -> createFutureStories(section, projectName, projectKey, docType)
        [] kind = "bullets" -> analyzeBulletsForStories(section, projectName, projectKey, docType)
        [] OTHER -> <<>>

\* The items of all sections, in section order.
sectionItems(parsedContent, pageTitle, projectKey) ==
  LET docType == detectDocumentType(parsedContent.plainText, pageTitle)
      projectName == extractProjectName(pageTitle, parsedContent.plainText)
      sections == parsedContent.sections
  IN  flatten([i \in 1..Len(sections) |->
        analyzeSectionForBacklogItems(sections[i], i - 1, docType, projectName, projectKey)])

\* A document whose sections gave nothing gets no item at all.
itemsWithoutFallback(backlogItems, pageTitle, plainText, projectKey) == backlogItems

\* if (backlogItems.length === 0) backlogItems.push(createFallbackStory(...))
itemsOrFallback(backlogItems, pageTitle, plainText, projectKey) ==
  IF Len(backlogItems) = 0
  THEN <<createFallbackStory(pageTitle, plainText, projectKey)>>
  ELSE backlogItems

MaxItems == 10

\* uniqueItems.slice(0, 10)
topItems(uniqueItems) == take(uniqueItems, MaxItems)

\* What becomes of the items of the sections: the fallback when there are
\* none, the ranking and the cut.
rankedItems(backlogItems, pageTitle, plainText, projectKey) ==
  topItems(deduplicateAndPrioritize(
    itemsOrFallback(backlogItems, pageTitle, plainText, projectKey)))

analyzeDocumentSemantics(parsedContent, pageTitle, projectKey) ==
  rankedItems(sectionItems(parsedContent, pageTitle, projectKey),
              pageTitle, parsedContent.plainText, projectKey)

(***************************************************************************)
(* Resolvers: storage keys, the one-hour cache test and the analysis       *)
(* result.  A missing or empty identifier of a payload is the empty        *)
(* string, which is falsy like undefined.  The pictographs of the summary  *)
(* text are left out.                                                      *)
(***************************************************************************)
\* What storage.get returns for a key without entry.
Undefined == [kind |-> "undefined"]

STORAGE_KEY_PREFIX == "backlog_"

getStorageKey(pageId, projectKey) == STORAGE_KEY_PREFIX \o pageId \o "_" \o projectKey

\* One hour in milliseconds.
CacheTtlMs == 3600000

MsPerMinute == 60000

\* An entry whose age reaches one hour as well is taken for valid.
cacheValidAtTtl(cachedData, nowMs) ==
  /\ cachedData # Undefined
  /\ cachedData.timestamp # 0
  /\ nowMs - cachedData.timestamp <= CacheTtlMs

\* No entry is ever taken for valid.
cacheNeverValid(cachedData, nowMs) == FALSE

\* if (cachedData && cachedData.timestamp) { if (Date.now() - cachedData.timestamp < 3600000) ...
cacheValid(cachedData, nowMs) ==
  /\ cachedData # Undefined
  /\ cachedData.timestamp # 0
  /\ nowMs - cachedData.timestamp < CacheTtlMs

getCacheAgeString(timestamp, nowMs) ==
  LET ageMs == nowMs - timestamp
      minutes == ageMs \div MsPerMinute
      hours == minutes \div 60
  IN  IF minutes < 1 THEN "just now"
      ELSE IF minutes = 1 THEN "1 minute ago"
      ELSE IF minutes < 60 THEN ToString(minutes) \o " minutes ago"
      ELSE IF hours = 1 THEN "1 hour ago"
      ELSE ToString(hours) \o " hours ago"

\* { ...base, ...over }
spread(base, over) == over @@ base

\* The elements of seq without repetition, in the order of first occurrence.
RECURSIVE insertionOrder(_, _)
insertionOrder(seq, acc) ==
  IF seq = <<>> THEN acc
  ELSE IF \E i \in 1..Len(acc) : acc[i] = Head(seq)
       THEN insertionOrder(Tail(seq), acc)
       ELSE insertionOrder(Tail(seq), Append(acc, Head(seq)))

IsStory(i) == i.issueType = "Story"
IsTask(i) == i.issueType = "Task"
IsHighPriority(i) == i.priority = "High" \/ i.priority = "Highest"
IsAreaLabel(l) == l \notin {"from-confluence", "auto-analyzed"}

generateAnalysisSummary(issues, pageTitle, parsedContent) ==
  LET storyCount == Len(SelectSeq(issues, IsStory))
      taskCount == Len(SelectSeq(issues, IsTask))
      highPriorityCount == Len(SelectSeq(issues, IsHighPriority))
      allLabels == flatten([i \in 1..Len(issues) |-> issues[i].labels])
      areas == insertionOrder(SelectSeq(allLabels, IsAreaLabel), <<>>)
  IN  "Analyzed \"" \o pageTitle \o "\" and extracted " \o ToString(Len(issues))
      \o " backlog items.\n\n"
      \o "Breakdown:\n"
      \o "* " \o ToString(storyCount) \o " User Stories\n"
      \o "* " \o ToString(taskCount) \o " Tasks\n"
      \o "* " \o ToString(highPriorityCount) \o " High Priority Items\n\n"
      \o (IF Len(areas) > 0 THEN "Key Areas: " \o join(take(areas, 5), ", ") ELSE "")

\* The object counting the items by the value of a property, "Unknown"
\* standing in for an empty value.
countByProperty(items, prop) ==
  LET val(i) == IF items[i][prop] = "" THEN "Unknown" ELSE items[i][prop]
  IN  [v \in {val(i) : i \in 1..Len(items)} |->
         Cardinality({i \in 1..Len(items) : val(i) = v})]

\* const actualTitle = pageData.title || pageTitle || "Untitled"
actualTitleOf(pageData, pageTitle) ==
  IF pageData.title # "" THEN pageData.title
  ELSE IF pageTitle # "" THEN pageTitle ELSE "Untitled"

\* const analysisResult = { summary, issues, timestamp: Date.now(), pageTitle: actualTitle, raw }
analysisResultFrom(issues, actualTitle, parsedContent, bodyHtml, nowMs) ==
  [ summary |-> generateAnalysisSummary(issues, actualTitle, parsedContent),
    issues |-> issues,
    timestamp |-> nowMs,
    pageTitle |-> actualTitle,
    raw |-> [ sectionsFound |-> Len(parsedContent.sections),
              contentLength |-> Len(bodyHtml),
              issueTypes |-> countByProperty(issues, "issueType"),
              priorities |-> countByProperty(issues, "priority") ] ]

\* The analysis of the parsed page.
analysisOfParsed(parsedContent, actualTitle, projectKey, bodyHtml, nowMs) ==
  analysisResultFrom(analyzeDocumentSemantics(parsedContent, actualTitle, projectKey),
                     actualTitle, parsedContent, bodyHtml, nowMs)

\* The analysis result of a fetched page, built at time nowMs.
analysisResultOf(pageData, pageTitle, projectKey, nowMs) ==
  analysisOfParsed(parseConfluenceContent(pageData.body),
                   actualTitleOf(pageData, pageTitle), projectKey, pageData.body, nowMs)

(***************************************************************************)
(* createJiraIssues: the request built for one item and the entries of the *)
(* outcome.  An absent field of an item is the empty string.               *)
(***************************************************************************)
SummaryMax == 255
ErrTextMax == 200

IsNonEmpty(l) == Len(l) > 0

\* str.split(","): the pieces between the commas, in order.
splitComma(str) ==
  LET commas == CharPositions(str, {","})
      n == Cardinality(commas)
      comma(k) == IF k = 0 THEN 0
                  ELSE IF k > n THEN Len(str) + 1
                  ELSE CHOOSE i \in commas : Cardinality({j \in commas : j <= i}) = k
  IN  [k \in 1..(n + 1) |-> SubSeq(str, comma(k - 1) + 1, comma(k) - 1)]

\* An item whose labels are a text and not an array holds the text in the
\* field labelsText.
HasTextLabels(issue) == "labelsText" \in DOMAIN issue

\* const labels = Array.isArray(issue.labels) ? issue.labels
\*   : typeof issue.labels === "string" ? issue.labels.split(",").map((l) => l.trim()) : []
labelsOfIssue(issue) ==
  IF HasTextLabels(issue)
  THEN [k \in 1..Len(splitComma(issue.labelsText)) |-> trim(splitComma(issue.labelsText)[k])]
  ELSE issue.labels

\* The fields of the POST /rest/api/3/issue request of one item; the labels
\* are sent only when the item has some.
issuePayload(issue, projectKey) ==
  LET labels == labelsOfIssue(issue)
      fields ==
        [ project |-> projectKey,
          summary |-> substring(trim(IF issue.title = "" THEN "Untitled" ELSE issue.title),
                                0, SummaryMax),
          description |-> IF issue.description = "" THEN "No description provided."
                          ELSE issue.description,
          issuetype |-> IF issue.issueType = "" THEN "Task" ELSE issue.issueType ]
  IN  IF Len(labels) > 0
      THEN spread(fields, [labels |-> SelectSeq(labels, IsNonEmpty)])
      ELSE fields

\* created.push({ key, id, summary: issue.title, self })
createdEntry(issue, createdIssue) ==
  [ key |-> createdIssue.key, id |-> createdIssue.id,
    summary |-> issue.title, self |-> createdIssue.self ]

\* errors.push({ issue, error: `API Error ${res.status}: ${errText.substring(0, 200)}` })
rejectedEntry(issue, res) ==
  [ issue |-> issue,
    error |-> "API Error " \o ToString(res.status) \o ": " \o substring(res.text, 0, ErrTextMax) ]

\* errors.push({ issue, error: err.message || "Unknown error" })
thrownEntry(issue, err) ==
  [ issue |-> issue,
    error |-> IF err.message = "" THEN "Unknown error" ELSE err.message ]

\* The failure of an item is not recorded.
errorsUnrecorded(errors, issue, res) == errors

\* The errors after the tracker call of an item failed.
errorsAfterFailure(errors, issue, res) ==
  Append(errors, IF res.kind = "rejected" THEN rejectedEntry(issue, res)
                 ELSE thrownEntry(issue, res))

(***************************************************************************)
(* backlogActionHandler: normalisation of the items handed in by the       *)
(* agent.                                                                  *)
(***************************************************************************)
ValidTypes == {"Story", "Task", "Bug", "Epic"}
ValidPriorities == {"Highest", "High", "Medium", "Low", "Lowest"}

normalizeIssueType(issue) ==
  LET issueType == IF issue.issueType # "" THEN issue.issueType
                   ELSE IF issue.type # "" THEN issue.type ELSE "Task"
      lowerType == toLowerCase(issueType)
  IN  IF issueType \in ValidTypes THEN issueType
      ELSE IF includes(lowerType, "story") THEN "Story"
      ELSE IF includes(lowerType, "bug") THEN "Bug"
      ELSE IF includes(lowerType, "epic") THEN "Epic"
      ELSE "Task"

\* The superlatives are not told apart.
normalizePriorityNoEst(issue) ==
  LET priority == IF issue.priority # "" THEN issue.priority ELSE "Medium"
      lowerPri == toLowerCase(priority)
  IN  IF priority \in ValidPriorities THEN priority
      ELSE IF includes(lowerPri, "high") THEN "High"
      ELSE IF includes(lowerPri, "low") THEN "Low"
      ELSE "Medium"

normalizePriority(issue) ==
  LET priority == IF issue.priority # "" THEN issue.priority ELSE "Medium"
      lowerPri == toLowerCase(priority)
  IN  IF priority \in ValidPriorities THEN priority
      ELSE IF includes(lowerPri, "high")
           THEN (IF includes(lowerPri, "est") THEN "Highest" ELSE "High")
      ELSE IF includes(lowerPri, "low")
           THEN (IF includes(lowerPri, "est") THEN "Lowest" ELSE "Low")
      ELSE "Medium"

\* One item of the agent normalised; an item without title is dropped.
normalizeIssue(issue) ==
  IF issue.title = "" THEN Undefined
  ELSE [ title |-> substring(issue.title, 0, SummaryMax),
         description |-> IF issue.description # "" THEN issue.description
                         ELSE "Task: " \o issue.title,
         issueType |-> normalizeIssueType(issue),
         priority |-> normalizePriority(issue),
         labels |-> SelectSeq(issue.labels, IsNonEmpty),
         estimatedEffort |-> issue.estimatedEffort,
         technicalNotes |-> issue.technicalNotes ]

IsDefined(x) == x # Undefined

normalizedIssuesOf(issues) ==
  SelectSeq([i \in 1..Len(issues) |-> normalizeIssue(issues[i])], IsDefined)

\* The entry carries no time stamp.
ingestResultUnstamped(inputs, issues, nowMs) ==
  LET normalizedIssues == normalizedIssuesOf(issues)
  IN  [ summary |-> IF inputs.analysisSummary # "" THEN inputs.analysisSummary
                    ELSE "AI-Generated Analysis: " \o ToString(Len(normalizedIssues))
                         \o " backlog items extracted from \"" \o inputs.pageTitle \o "\"",
        issues |-> normalizedIssues,
        timestamp |-> 0,
        pageTitle |-> inputs.pageTitle,
        projectKey |-> inputs.projectKey,
        pageId |-> inputs.pageId,
        usedAI |-> TRUE,
        source |-> "rovo-agent",
        stats |-> [ total |-> Len(normalizedIssues),
                    byType |-> countByProperty(normalizedIssues, "issueType"),
                    byPriority |-> countByProperty(normalizedIssues, "priority") ] ]

\* The entry the handler stores, built at time nowMs.
ingestResultOf(inputs, issues, nowMs) ==
  LET normalizedIssues == normalizedIssuesOf(issues)
  IN  [ summary |-> IF inputs.analysisSummary # "" THEN inputs.analysisSummary
                    ELSE "AI-Generated Analysis: " \o ToString(Len(normalizedIssues))
                         \o " backlog items extracted from \"" \o inputs.pageTitle \o "\"",
        issues |-> normalizedIssues,
        timestamp |-> nowMs,
        pageTitle |-> inputs.pageTitle,
        projectKey |-> inputs.projectKey,
        pageId |-> inputs.pageId,
        usedAI |-> TRUE,
        source |-> "rovo-agent",
        stats |-> [ total |-> Len(normalizedIssues),
                    byType |-> countByProperty(normalizedIssues, "issueType"),
                    byPriority |-> countByProperty(normalizedIssues, "priority") ] ]

(***************************************************************************)
(* JSON.parse on the texts an agent may hand in.  A value is a record of   *)
(* its type t and its content v: a string's characters, a number's         *)
(* literal, the word of true, false and null, the sequence of an array's   *)
(* elements, the function from an object's keys to their values.  Strings  *)
(* with escapes and numbers with fraction or exponent are not among the    *)
(* texts of the model; the reader rejects the former and stops before the  *)
(* latter.                                                                 *)
(***************************************************************************)
JsonWs == {" ", "\n", "\r", "\t"}

JsonFail == [ok |-> FALSE]

\* The message of the SyntaxError JSON.parse throws; its wording is the
\* engine's.
JsonSyntaxError == "Unexpected token in JSON"

\* The first position from i on that holds no white space, Len(s) + 1 if
\* there is none.
SkipWs(s, i) ==
  LET j == FirstGE({k \in i..Len(s) : CharAt(s, k) \notin JsonWs}, i)
  IN  IF j = 0 THEN Len(s) + 1 ELSE j

\* A string that opens at i.
ParseString(s, i) ==
  LET j == FirstGE({k \in (i + 1)..Len(s) : CharAt(s, k) = "\""}, i + 1)
      inner == SubSeq(s, i + 1, j - 1)
  IN  IF j = 0 \/ \E k \in 1..Len(inner) : CharAt(inner, k) \in {"\\", "\n", "\r", "\t", "\f"}
      THEN JsonFail
      ELSE [ok |-> TRUE, value |-> [t |-> "string", v |-> inner], next |-> j + 1]

\* A number that opens at i: -?(0|[1-9][0-9]*)
ParseNumber(s, i) ==
  LET d == IF CharAt(s, i) = "-" THEN i + 1 ELSE i
      stop == FirstGE({k \in d..Len(s) : CharAt(s, k) \notin DigitSet}, d)
      e == IF stop = 0 THEN Len(s) + 1 ELSE stop
      end == IF e > d /\ CharAt(s, d) = "0" THEN d + 1 ELSE e
  IN  IF e = d THEN JsonFail
      ELSE [ok |-> TRUE, value |-> [t |-> "number", v |-> SubSeq(s, i, end - 1)], next |-> end]

RECURSIVE ParseValue(_, _), ParseElements(_, _, _), ParseMembers(_, _, _)
\* Behind an element of an array, j being the next position that holds no
\* white space: a comma and more elements, or the end of the array.
ElementsSep(s, acc, j) ==
  IF j > Len(s) THEN JsonFail
  ELSE IF CharAt(s, j) = "," THEN ParseElements(s, j + 1, acc)
  ELSE IF CharAt(s, j) = "]"
  THEN [ok |-> TRUE, value |-> [t |-> "array", v |-> acc], next |-> j + 1]
  ELSE JsonFail

ElementsAfter(s, acc, r) ==
  IF ~r.ok THEN JsonFail ELSE ElementsSep(s, Append(acc, r.value), SkipWs(s, r.next))

\* The elements of an array from i on, behind those of acc.
ParseElements(s, i, acc) == ElementsAfter(s, acc, ParseValue(s, i))

\* Behind a member of an object: a comma and more members, or the end of
\* the object.
MembersSep(s, acc, j) ==
  IF j > Len(s) THEN JsonFail
  ELSE IF CharAt(s, j) = "," THEN ParseMembers(s, j + 1, acc)
  ELSE IF CharAt(s, j) = "}"
  THEN [ok |-> TRUE, value |-> [t |-> "object", v |-> acc], next |-> j + 1]
  ELSE JsonFail

\* A key given twice keeps its last value.
MembersAfter(s, acc, key, r) ==
  IF ~r.ok THEN JsonFail ELSE MembersSep(s, (key :> r.value) @@ acc, SkipWs(s, r.next))

MembersValue(s, acc, key, colon) ==
  IF colon <= Len(s) /\ CharAt(s, colon) = ":"
  THEN MembersAfter(s, acc, key, ParseValue(s, colon + 1))
  ELSE JsonFail

MembersColon(s, acc, k) ==
  IF ~k.ok THEN JsonFail ELSE MembersValue(s, acc, k.value.v, SkipWs(s, k.next))

MembersKey(s, acc, i) ==
  IF i <= Len(s) /\ CharAt(s, i) = "\"" THEN MembersColon(s, acc, ParseString(s, i))
  ELSE JsonFail

\* The members of an object from i on, added to those of acc.
ParseMembers(s, i, acc) == MembersKey(s, acc, SkipWs(s, i))

\* The value that starts at i, a position that holds no white space; inner
\* is the next such position.
ValueAt(s, i, inner) ==
  IF i > Len(s) THEN JsonFail
  ELSE IF CharAt(s, i) = "\"" THEN ParseString(s, i)
  ELSE IF CharAt(s, i) = "[" THEN
         (IF inner <= Len(s) /\ CharAt(s, inner) = "]"
          THEN [ok |-> TRUE, value |-> [t |-> "array", v |-> <<>>], next |-> inner + 1]
          ELSE ParseElements(s, i + 1, <<>>))
  ELSE IF CharAt(s, i) = "{" THEN
         (IF inner <= Len(s) /\ CharAt(s, inner) = "}"
          THEN [ok |-> TRUE, value |-> [t |-> "object", v |-> <<>>], next |-> inner + 1]
          ELSE ParseMembers(s, i + 1, <<>>))
  ELSE IF \E w \in {"true", "false", "null"} : startsWithAt(s, w, i)
  THEN LET w == CHOOSE x \in {"true", "false", "null"} : startsWithAt(s, x, i)
       IN  [ok |-> TRUE, value |-> [t |-> "literal", v |-> w], next |-> i + Len(w)]
  ELSE IF CharAt(s, i) \in DigitSet \cup {"-"} THEN ParseNumber(s, i)
  ELSE JsonFail

ValueFrom(s, i) == ValueAt(s, i, SkipWs(s, i + 1))

\* The value that starts at or behind i, and the position behind it.
ParseValue(s, i) == ValueFrom(s, SkipWs(s, i))

JsonWhole(text, r) ==
  IF r.ok /\ SkipWs(text, r.next) > Len(text)
  THEN [ok |-> TRUE, value |-> r.value]
  ELSE JsonFail

\* JSON.parse(text): the value, or the failure that stands for the
\* SyntaxError.
JSONparse(text) == JsonWhole(text, ParseValue(text, 1))

\* backlogItems.match(/\[[\s\S]*\]/): from the first "[" to the last "]"
\* behind it, "" when there is no match.
bracketedPart(text) ==
  LET first == FirstGE(CharPositions(text, {"["}), 1)
      last == Last(CharPositions(text, {"]"}))
  IN  IF first = 0 \/ last < first THEN "" ELSE SubSeq(text, first, last)

\* What JavaScript takes for true of a parsed value.
Truthy(x) ==
  ~ \/ x.t = "string" /\ x.v = ""
    \/ x.t = "number" /\ x.v \in {"0", "-0"}
    \/ x.t = "literal" /\ x.v \in {"false", "null"}

\* The member of a parsed item as text, "" when it is missing or falsy.
textOf(x, name) ==
  IF x.t = "object" /\ name \in DOMAIN x.v /\ x.v[name].t = "string"
  THEN x.v[name].v ELSE ""

\* A parsed element as the handler reads it.  An element that is no object
\* has no members; labels are read from an array of texts.
rawItemOf(x) ==
  [ title |-> textOf(x, "title"), description |-> textOf(x, "description"),
    issueType |-> textOf(x, "issueType"), type |-> textOf(x, "type"),
    priority |-> textOf(x, "priority"),
    labels |-> IF x.t = "object" /\ "labels" \in DOMAIN x.v /\ x.v["labels"].t = "array"
               THEN [k \in 1..Len(x.v["labels"].v) |->
                       IF x.v["labels"].v[k].t = "string" THEN x.v["labels"].v[k].v ELSE ""]
               ELSE <<>>,
    estimatedEffort |-> textOf(x, "estimatedEffort"),
    technicalNotes |-> textOf(x, "technicalNotes") ]

\* The member of a parsed item, the empty text when it is missing.
memberOf(x, name) ==
  IF x.t = "object" /\ name \in DOMAIN x.v THEN x.v[name] ELSE [t |-> "string", v |-> ""]

\* The TypeError the normalisation of one parsed element runs into, "" if
\* none.  An element without a truthy title is skipped before anything
\* else of it is read.
itemErrorOf(x) ==
  LET given(name) == Truthy(memberOf(x, name))
      text(name) == memberOf(x, name).t = "string"
      issueType == IF given("issueType") THEN memberOf(x, "issueType")
                   ELSE memberOf(x, "type")
  IN  IF x.t = "literal" /\ x.v = "null"
      THEN "Cannot read properties of null (reading 'title')"
      ELSE IF ~given("title") THEN ""
      ELSE IF Truthy(issueType) /\ issueType.t # "string"
      THEN "issueType.toLowerCase is not a function"
      ELSE IF given("priority") /\ ~text("priority")
      THEN "priority.toLowerCase is not a function"
      ELSE IF given("labels") /\ memberOf(x, "labels").t \notin {"string", "array"}
      THEN "labels.filter is not a function"
      ELSE IF ~text("title") THEN "issue.title.substring is not a function"
      ELSE ""

\* The TypeError the handler runs into on a parsed value, "" if none: a
\* value that is no array, or the first element that raises one.
typeErrorOf(x) ==
  IF x.t = "literal" /\ x.v = "null"
  THEN "Cannot read properties of null (reading 'length')"
  ELSE IF x.t # "array" THEN "issues.map is not a function"
  ELSE LET bad == {k \in 1..Len(x.v) : itemErrorOf(x.v[k]) # ""}
       IN  IF bad = {} THEN "" ELSE itemErrorOf(x.v[FirstGE(bad, 1)])

\* The items of a parsed value, or the message of the TypeError err.
issuesChecked(x, err) ==
  IF err # "" THEN [ok |-> FALSE, error |-> err]
  ELSE [ok |-> TRUE, issues |-> [k \in 1..Len(x.v) |-> rawItemOf(x.v[k])]]

issuesOfParsed(parsed) ==
  IF ~parsed.ok THEN [ok |-> FALSE, error |-> JsonSyntaxError]
  ELSE issuesChecked(parsed.value, typeErrorOf(parsed.value))

\* whole is what JSON.parse makes of the text, part the bracketed part of
\* the text, which is parsed when the text is no JSON.
issuesOfText(whole, part) ==
  IF whole.ok THEN issuesOfParsed(whole)
  ELSE IF part = ""
  THEN [ok |-> FALSE, error |-> "Could not parse backlog items JSON: " \o JsonSyntaxError]
  ELSE issuesOfParsed(JSONparse(part))

\* The items the handler normalises, or the message of what it throws:
\* backlogItems is an array, a text to be parsed, or something else.
issuesOf(backlogItems) ==
  IF backlogItems.kind = "array" THEN [ok |-> TRUE, issues |-> backlogItems.value]
  ELSE IF backlogItems.kind # "string"
  THEN [ok |-> FALSE, error |-> "backlogItems must be a JSON string or array"]
  ELSE issuesOfText(JSONparse(backlogItems.value), bracketedPart(backlogItems.value))

previewOf(i) == [title |-> i.title, type |-> i.issueType, priority |-> i.priority]

\* The response of the handler after the entry has been stored.
ingestResponse(analysisResult, storageKey) ==
  LET normalizedIssues == analysisResult.issues
      shown == take(normalizedIssues, 3)
  IN  [ success |-> TRUE,
        message |-> "Successfully stored " \o ToString(Len(normalizedIssues))
                    \o " AI-generated backlog items for \"" \o analysisResult.pageTitle \o "\"",
        itemCount |-> Len(normalizedIssues),
        storageKey |-> storageKey,
        statistics |-> analysisResult.stats,
        preview |-> [i \in 1..Len(shown) |-> previewOf(shown[i])] ]

(***************************************************************************)
(* The application: requests of the resolvers and of the action handler    *)
(* running side by side against the Forge store, Confluence and Jira.      *)
(* Every await of a handler is a step of its own; between two steps of a   *)
(* request the other request and the clock may move.                       *)
(***************************************************************************)
MaxOps == 2      \* requests started in a run

Reqs == {1, 2}

\* The instants the clock shows in a run: a start, the last millisecond at
\* which an entry stored at the start is younger than an hour, and the next.
Instants == {1, CacheTtlMs, CacheTtlMs + 1}

\* The (pageId, projectKey) pairs of the payloads; the first two have the
\* same storage key, the last two lack an identifier.
TargetPairs == {<<"7_A", "B">>, <<"7", "A_B">>, <<"", "B">>, <<"7", "">>}

StorageKeys == {getStorageKey(p[1], p[2]) : p \in TargetPairs}

PayloadTitle == "Plan"

\* The pages Confluence may answer with: title and body in storage format.
PageDocs ==
  { [title |-> "", body |-> ""],
    [title |-> "Notes", body |-> "<h2>Data Model</h2><li>id: string</li>"] }

FetchResponses ==
  {[ok |-> TRUE, status |-> 200, pageData |-> d] : d \in PageDocs}
    \cup {[ok |-> FALSE, status |-> s] : s \in {404, 403, 500}}

\* The analysis of each page of PageDocs under each project key, computed
\* once; the timestamp is set when the result is built.
AnalysisMemo ==
  [d \in PageDocs, k \in {p[2] : p \in TargetPairs} |->
     analysisResultOf(d, PayloadTitle, k, 0)]

\* The batches handed to createJiraIssues.
ItemSetup == MkItem("Set up project", "Create the repository.", "Story", <<"setup", "">>, "High")
ItemBlank == spread(MkItem("", "", "", <<>>, "Medium"), [labelsText |-> "api, ,backend , api"])
ItemLogin == MkItem(" Login page ", "Build the form.", "Task", <<"ui", "forms", "ui">>, "Low")

\* The payloads of createJiraIssues: a batch of three for a page, a batch of
\* one without page, and the three a precondition turns down: no project
\* key, an empty list, no list.
CreationPayloads ==
  { [pageId |-> "7_A", pageTitle |-> "Plan", projectKey |-> "B",
     issues |-> <<ItemSetup, ItemBlank, ItemLogin>>],
    [pageId |-> "", pageTitle |-> "Plan", projectKey |-> "B", issues |-> <<ItemLogin>>],
    [pageId |-> "7", pageTitle |-> "Plan", projectKey |-> "",
     issues |-> <<ItemSetup, ItemBlank, ItemLogin>>],
    [pageId |-> "7", pageTitle |-> "Plan", projectKey |-> "A_B", issues |-> <<>>],
    [pageId |-> "7_A", pageTitle |-> "Plan", projectKey |-> "B"] }

\* What Jira may do with the creation request of the item at position i:
\* create the issue or fail, by a 400 answer for the items at odd positions
\* and by a broken connection for those at even positions.
TrackerResponses(projectKey, i) ==
  { [kind |-> "ok", key |-> projectKey \o "-" \o ToString(i), id |-> ToString(10000 + i),
     self |-> "/rest/api/3/issue/" \o ToString(10000 + i)],
    IF i % 2 = 1
    THEN [kind |-> "rejected", status |-> 400, text |-> "{\"errors\":{\"summary\":\"invalid\"}}"]
    ELSE [kind |-> "thrown", message |-> "socket hang up"] }

\* What an agent may hand to backlogActionHandler as backlogItems: an array
\* of two items, an array of one item more than an analysis keeps, a text
\* that is no JSON, a text that wraps a JSON array in a sentence, the JSON
\* text of a single item, an object, or nothing.
RawItem(title, type, priority, labels) ==
  [ title |-> title, description |-> "", issueType |-> "", type |-> type,
    priority |-> priority, labels |-> labels, estimatedEffort |-> "", technicalNotes |-> "" ]

IngestInputs ==
  { [kind |-> "array",
     value |-> << RawItem("Add search", "User Story", "HIGHEST", <<"search", "">>),
                  RawItem("", "bug", "low", <<>>) >>],
    [kind |-> "array",
     value |-> [k \in 1..(MaxItems + 1) |->
                  RawItem("Item " \o ToString(k), "Task", "Medium", <<>>)]],
    [kind |-> "string", value |-> "garbage"],
    [kind |-> "string",
     value |-> "Here you go: [{\"title\": \"Add search\", \"type\": \"User Story\", "
               \o "\"priority\": \"HIGHEST\", \"labels\": [\"search\", \"\"]}, {\"type\": \"bug\"}] Done."],
    [kind |-> "string", value |-> "{\"title\": \"Add search\"}"],
    [kind |-> "object", value |-> <<>>],
    Undefined }

\* issuesOf on the inputs of the model, computed once.
IngestMemo == [b \in IngestInputs \ {Undefined} |-> issuesOf(b)]

\* The requests made of backlogActionHandler: every kind of backlogItems for
\* one page and project, the array of two for the other pair with the same
\* key and for a pair that lacks the page.
IngestRequests ==
  {<<p, b>> \in TargetPairs \X IngestInputs :
     \/ p = <<"7", "A_B">>
     \/ b # Undefined /\ b.kind = "array" /\ Len(b.value) = 2 /\ p[2] = "B"}

\* A slot that holds no request.  Besides the locals of the handler a slot
\* records what its request saw and left in the store: readAt, the time of
\* its cache read; fetches, the page requests it made; outcomes, what Jira
\* did with each item; removed, the entry its delete found; entryAfter, the
\* entry of its key when its last store call had answered or, without such
\* a call, when it returned; failedCall, the store call of it that threw;
\* fetchStatus, the status of the answer of Confluence; overtaken, whether
\* a delete of its key was carried out between its cache read and its
\* storage.set.
NoRequest ==
  [ op |-> "none", pc |-> "idle", payload |-> Undefined, storageKey |-> "",
    cachedData |-> Undefined, readAt |-> 0, fetches |-> 0, fetchStatus |-> 0,
    pageData |-> Undefined,
    analysisResult |-> Undefined, idx |-> 0, created |-> <<>>, errors |-> <<>>,
    outcomes |-> <<>>, removed |-> Undefined, entryAfter |-> Undefined,
    failedCall |-> "", overtaken |-> FALSE, threw |-> "", result |-> Undefined ]

\* storage.set and storage.delete
storageSet(s, key, value) == [s EXCEPT ![key] = value]

\* The entry stays.
storageKeep(s, key) == s

storageDelete(s, key) == [s EXCEPT ![key] = Undefined]

InitApp ==
  /\ store = [k \in StorageKeys |-> Undefined]
  /\ now = 1
  /\ started = 0
  /\ req = [r \in Reqs |-> NoRequest]
  /\ jiraCalls = [r \in Reqs |-> <<>>]
  /\ jiraInFlight = [r \in Reqs |-> {}]

\* A request starts in the first slot that runs none.
Free(r) == req[r].pc \in {"idle", "done"}

CanStart(r) ==
  /\ started < MaxOps
  /\ Free(r)
  /\ \A q \in Reqs : q < r => ~Free(q)

\* The slot r taken by a new request.
Begin(r, next) ==
  /\ started' = started + 1
  /\ req' = [req EXCEPT ![r] = next]
  /\ jiraCalls' = [jiraCalls EXCEPT ![r] = <<>>]
  /\ jiraInFlight' = [jiraInFlight EXCEPT ![r] = {}]
  /\ UNCHANGED <<store, now, fnVars>>

\* The request of slot r moves on and touches nothing else.
Step(r, next) ==
  /\ req' = [req EXCEPT ![r] = next]
  /\ UNCHANGED <<store, now, started, jiraCalls, jiraInFlight, fnVars>>

Returned(q, value) == [q EXCEPT !.pc = "done", !.result = value]
Threw(q, message) == [q EXCEPT !.pc = "done", !.threw = message]

\* analysisResultOf on the pages and keys of the model, looked up.
analysisResultAt(pageData, pageTitle, projectKey, nowMs) ==
  [AnalysisMemo[pageData, projectKey] EXCEPT !.timestamp = nowMs]

Payload(pair) == [pageId |-> pair[1], pageTitle |-> PayloadTitle, projectKey |-> pair[2]]

Started(op, pc, payload) ==
  [NoRequest EXCEPT !.op = op, !.pc = pc, !.payload = payload,
                    !.storageKey = getStorageKey(payload.pageId, payload.projectKey)]

(* analyzeConfluencePage *)
AnalyzeStart(r) ==
  /\ CanStart(r)
  /\ \E pair \in TargetPairs :
       LET payload == Payload(pair)
       IN  IF payload.pageId = ""
           THEN Begin(r, Threw(Started("analyzeConfluencePage", "done", payload),
                               "Please select a Confluence page to analyze."))
           ELSE Begin(r, Started("analyzeConfluencePage", "get", payload))

\* storage.get has answered: a valid entry is returned, else the page is
\* requested from Confluence.
AnalyzeCacheRead(r) ==
  /\ req[r].op = "analyzeConfluencePage"
  /\ req[r].pc = "get"
  /\ LET cachedData == store[req[r].storageKey]
         q == [req[r] EXCEPT !.cachedData = cachedData, !.readAt = now]
     IN  IF cacheValid(cachedData, now)
         THEN Step(r, Returned(q, spread(cachedData,
                [fromCache |-> TRUE,
                 cacheAge |-> getCacheAgeString(cachedData.timestamp, now)])))
         ELSE Step(r, [q EXCEPT !.pc = "fetch", !.fetches = @ + 1])

\* A refused page is reported like a missing one.
fetchErrorRefusedAsMissing(status, pageId) ==
  IF status \in {404, 403}
  THEN "Confluence page not found (ID: " \o pageId \o ")."
  ELSE "Failed to fetch Confluence page: " \o ToString(status)

\* The message analyzeConfluencePage throws for an answer that is not ok.
fetchErrorMessage(status, pageId) ==
  IF status = 404
  THEN "Confluence page not found (ID: " \o pageId \o ")."
  ELSE IF status = 403
  THEN "You don't have permission to access this Confluence page."
  ELSE "Failed to fetch Confluence page: " \o ToString(status)

\* Confluence has answered.
AnalyzeFetched(r) ==
  /\ req[r].op = "analyzeConfluencePage"
  /\ req[r].pc = "fetch"
  /\ \E res \in FetchResponses :
       IF ~res.ok
       THEN Step(r, Threw([req[r] EXCEPT !.fetchStatus = res.status],
                          fetchErrorMessage(res.status, req[r].payload.pageId)))
       ELSE Step(r, [req[r] EXCEPT
              !.pc = "set",
              !.fetchStatus = res.status,
              !.pageData = res.pageData,
              !.analysisResult = analysisResultAt(res.pageData, req[r].payload.pageTitle,
                                                  req[r].payload.projectKey, now)])

\* storage.set has answered.
AnalyzeStored(r) ==
  /\ req[r].op = "analyzeConfluencePage"
  /\ req[r].pc = "set"
  /\ store' = storageSet(store, req[r].storageKey, req[r].analysisResult)
  /\ req' = [req EXCEPT ![r] =
               Returned([req[r] EXCEPT !.entryAfter = store'[req[r].storageKey]],
                        spread(req[r].analysisResult, [fromCache |-> FALSE]))]
  /\ UNCHANGED <<now, started, jiraCalls, jiraInFlight, fnVars>>

(* getStoredBacklog *)
GetStoredStart(r) ==
  /\ CanStart(r)
  /\ \E pair \in TargetPairs :
       LET payload == Payload(pair)
       IN  IF payload.pageId = "" \/ payload.projectKey = ""
           THEN Begin(r, Returned(Started("getStoredBacklog", "done", payload),
                                  [found |-> FALSE]))
           ELSE Begin(r, Started("getStoredBacklog", "get", payload))

\* The read removes the entry it finds expired.
GetStoredReadPurging(r) ==
  /\ req[r].op = "getStoredBacklog"
  /\ req[r].pc = "get"
  /\ LET data == store[req[r].storageKey]
         q == [req[r] EXCEPT !.cachedData = data, !.readAt = now]
     IN  IF cacheValid(data, now)
         THEN Step(r, Returned(q, [found |-> TRUE, data |-> data,
                                   cacheAge |-> getCacheAgeString(data.timestamp, now)]))
         ELSE /\ req' = [req EXCEPT ![r] = Returned(q, [found |-> FALSE])]
              /\ store' = storageDelete(store, req[r].storageKey)
              /\ UNCHANGED <<now, started, jiraCalls, jiraInFlight, fnVars>>

GetStoredRead(r) ==
  /\ req[r].op = "getStoredBacklog"
  /\ req[r].pc = "get"
  /\ LET data == store[req[r].storageKey]
         q == [req[r] EXCEPT !.cachedData = data, !.readAt = now]
     IN  IF cacheValid(data, now)
         THEN Step(r, Returned(q, [found |-> TRUE, data |-> data,
                                   cacheAge |-> getCacheAgeString(data.timestamp, now)]))
         ELSE Step(r, Returned(q, [found |-> FALSE]))

\* A delete of key has been carried out: the analysis under way that has
\* read the entry of key and not yet stored its result is marked.
Overtake(q, key) ==
  IF q.op = "analyzeConfluencePage" /\ q.pc \in {"fetch", "set"} /\ q.storageKey = key
  THEN [q EXCEPT !.overtaken = TRUE]
  ELSE q

(* clearStoredBacklog *)
ClearStart(r) ==
  /\ CanStart(r)
  /\ \E pair \in TargetPairs :
       LET payload == Payload(pair)
       IN  IF payload.pageId = "" \/ payload.projectKey = ""
           THEN Begin(r, Returned(Started("clearStoredBacklog", "done", payload),
                                  [success |-> FALSE]))
           ELSE Begin(r, Started("clearStoredBacklog", "delete", payload))

ClearDeleted(r) ==
  /\ req[r].op = "clearStoredBacklog"
  /\ req[r].pc = "delete"
  /\ store' = storageDelete(store, req[r].storageKey)
  /\ req' = [x \in Reqs |->
               IF x = r
               THEN Returned([req[r] EXCEPT !.removed = store[req[r].storageKey],
                                            !.entryAfter = store'[req[r].storageKey]],
                             [success |-> TRUE])
               ELSE Overtake(req[x], req[r].storageKey)]
  /\ UNCHANGED <<now, started, jiraCalls, jiraInFlight, fnVars>>

(* createJiraIssues *)
\* The project key is not looked at.
createPreconditionNoKey(payload) ==
  IF "issues" \notin DOMAIN payload \/ Len(payload.issues) = 0
  THEN "No issues provided to create."
  ELSE ""

\* The message of the precondition a payload violates, "" if it violates none.
createPrecondition(payload) ==
  IF payload.projectKey = ""
  THEN "Project key is required to create issues."
  ELSE IF "issues" \notin DOMAIN payload \/ Len(payload.issues) = 0
  THEN "No issues provided to create."
  ELSE ""

CreateStart(r) ==
  /\ CanStart(r)
  /\ \E payload \in CreationPayloads :
       IF createPrecondition(payload) # ""
       THEN Begin(r, Threw(Started("createJiraIssues", "done", payload),
                           createPrecondition(payload)))
       ELSE Begin(r, [Started("createJiraIssues", "loop", payload) EXCEPT !.idx = 1])

\* The creation request of the next item goes out although the one before
\* it has not been answered; only the last one is waited for.
CreateSendEager(r) ==
  /\ req[r].op = "createJiraIssues"
  /\ req[r].pc = "loop"
  /\ LET q == req[r]
         last == q.idx = Len(q.payload.issues)
     IN  /\ jiraCalls' = [jiraCalls EXCEPT ![r] =
                Append(@, [index |-> q.idx,
                           fields |-> issuePayload(q.payload.issues[q.idx], q.payload.projectKey)])]
         /\ jiraInFlight' = [jiraInFlight EXCEPT ![r] = @ \cup {q.idx}]
         /\ req' = [req EXCEPT ![r] =
                [q EXCEPT !.pc = IF last THEN "tracker" ELSE "loop",
                          !.idx = IF last THEN @ ELSE @ + 1]]
  /\ UNCHANGED <<store, now, started, fnVars>>

\* The loop reaches an item: its creation request goes out and the handler
\* waits for the answer.
CreateSend(r) ==
  /\ req[r].op = "createJiraIssues"
  /\ req[r].pc = "loop"
  /\ LET q == req[r]
     IN  /\ jiraCalls' = [jiraCalls EXCEPT ![r] =
                Append(@, [index |-> q.idx,
                           fields |-> issuePayload(q.payload.issues[q.idx], q.payload.projectKey)])]
         /\ jiraInFlight' = [jiraInFlight EXCEPT ![r] = @ \cup {q.idx}]
         /\ req' = [req EXCEPT ![r] = [q EXCEPT !.pc = "tracker"]]
  /\ UNCHANGED <<store, now, started, fnVars>>

\* Jira has answered, or the request has thrown: the outcome is recorded
\* and the loop goes on; behind the last item the cache entry is deleted if
\* the payload names the page.
CreateRecv(r) ==
  /\ req[r].op = "createJiraIssues"
  /\ req[r].pc = "tracker"
  /\ LET q == req[r]
         issues == q.payload.issues
         issue == issues[q.idx]
     IN  \E res \in TrackerResponses(q.payload.projectKey, q.idx) :
           LET q1 == [q EXCEPT
                        !.created = IF res.kind = "ok"
                                    THEN Append(@, createdEntry(issue, res)) ELSE @,
                        !.errors = IF res.kind = "ok" THEN @
                                   ELSE errorsAfterFailure(@, issue, res),
                        !.outcomes = Append(@, res.kind),
                        !.idx = @ + 1]
           IN  req' = [req EXCEPT ![r] =
                 IF q.idx < Len(issues) THEN [q1 EXCEPT !.pc = "loop"]
                 ELSE IF q.payload.pageId # "" /\ q.payload.projectKey # ""
                 THEN [q1 EXCEPT !.pc = "delete"]
                 ELSE Returned([q1 EXCEPT !.entryAfter = store[q.storageKey]],
                               [created |-> q1.created, errors |-> q1.errors])]
  /\ jiraInFlight' = [jiraInFlight EXCEPT ![r] = @ \ {req[r].idx}]
  /\ UNCHANGED <<store, now, started, jiraCalls, fnVars>>

\* storage.delete has answered.
CreateInvalidated(r) ==
  /\ req[r].op = "createJiraIssues"
  /\ req[r].pc = "delete"
  /\ store' = storageDelete(store, req[r].storageKey)
  /\ req' = [x \in Reqs |->
               IF x = r
               THEN Returned([req[r] EXCEPT !.removed = store[req[r].storageKey],
                                            !.entryAfter = store'[req[r].storageKey]],
                             [created |-> req[r].created, errors |-> req[r].errors])
               ELSE Overtake(req[x], req[r].storageKey)]
  /\ UNCHANGED <<now, started, jiraCalls, jiraInFlight, fnVars>>

(* backlogActionHandler *)
\* The request q once its items are parsed: answered with the message of
\* what was thrown, or holding the entry to store.
ingestParsed(q, inputs, parsed, nowMs) ==
  IF ~parsed.ok THEN Returned(q, [success |-> FALSE, error |-> parsed.error])
  ELSE [q EXCEPT !.pc = "set",
                 !.analysisResult = ingestResultOf(inputs, parsed.issues, nowMs)]

IngestStart(r) ==
  /\ CanStart(r)
  /\ \E pair \in TargetPairs, backlogItems \in IngestInputs :
       /\ <<pair, backlogItems>> \in IngestRequests
       /\ LET inputs == spread(Payload(pair),
                            [backlogItems |-> backlogItems, analysisSummary |-> ""])
              q == Started("backlogActionHandler", "done", inputs)
          IN  IF \/ backlogItems = Undefined
                 \/ backlogItems = [kind |-> "string", value |-> ""]
                 \/ inputs.pageTitle = "" \/ inputs.projectKey = "" \/ inputs.pageId = ""
              THEN Begin(r, Returned(q, [success |-> FALSE,
                     error |-> "Missing required inputs. Need: backlogItems, pageTitle, projectKey, pageId"]))
              ELSE Begin(r, ingestParsed(q, inputs, IngestMemo[backlogItems], now))

IngestStored(r) ==
  /\ req[r].op = "backlogActionHandler"
  /\ req[r].pc = "set"
  /\ store' = storageSet(store, req[r].storageKey, req[r].analysisResult)
  /\ req' = [req EXCEPT ![r] =
               Returned([req[r] EXCEPT !.entryAfter = store'[req[r].storageKey]],
                        ingestResponse(req[r].analysisResult, req[r].storageKey))]
  /\ UNCHANGED <<now, started, jiraCalls, jiraInFlight, fnVars>>

\* The store call a request waits for throws.  Only backlogActionHandler
\* catches it; the resolvers reject.
StorageFailure(r) ==
  /\ req[r].pc \in {"get", "set", "delete"}
  /\ LET q == [req[r] EXCEPT !.failedCall = req[r].pc]
     IN  IF q.op = "backlogActionHandler"
         THEN Step(r, Returned(q, [success |-> FALSE, error |-> "storage unavailable"]))
         ELSE Step(r, Threw(q, "storage unavailable"))

Tick ==
  /\ \E t \in Instants : t > now /\ now' = t
  /\ UNCHANGED <<store, started, req, jiraCalls, jiraInFlight, fnVars>>

Init ==
  /\ InitApp
  /\ fnIn = <<>>
  /\ fnOut = <<>>
  /\ fnOut2 = <<>>
  /\ fnPc = "unused"

Next ==
  \/ Tick
  \/ \E r \in Reqs :
       \/ AnalyzeStart(r) \/ AnalyzeCacheRead(r) \/ AnalyzeFetched(r) \/ AnalyzeStored(r)
       \/ GetStoredStart(r) \/ GetStoredRead(r)
       \/ ClearStart(r) \/ ClearDeleted(r)
       \/ CreateStart(r) \/ CreateSend(r) \/ CreateRecv(r) \/ CreateInvalidated(r)
       \/ IngestStart(r) \/ IngestStored(r)
       \/ StorageFailure(r)

Spec == Init /\ [][Next]_vars

(***************************************************************************)
(* Work items handed to the ranking step.                                  *)
(***************************************************************************)
MaxRankLen == 3

Priorities == {"Highest", "High", "Medium", "Low", "Lowest"}

LongStem == "Implement offline synchronisation of shared notes"

\* Two titles that differ in case, in punctuation and behind the 40th
\* significant character, and a third one unlike them.
RankTitles == { LongStem \o " A", toLowerCase(LongStem) \o "! (b)", "Add Login-Page" }

RankItems == {MkItem(t, "", "Story", <<>>, p) : t \in RankTitles, p \in Priorities}

SeqsUpTo(S, n) == UNION {[1..k -> S] : k \in 0..n}

InitRank ==
  /\ InitApp
  /\ fnIn \in SeqsUpTo(RankItems, MaxRankLen)
  /\ fnOut = <<>>
  /\ fnOut2 = <<>>
  /\ fnPc = "input"

RankApply ==
  /\ fnPc = "input"
  /\ fnOut' = deduplicateAndPrioritize(fnIn)
  /\ fnPc' = "once"
  /\ UNCHANGED <<fnIn, fnOut2, appVars>>

RankReapply ==
  /\ fnPc = "once"
  /\ fnOut2' = deduplicateAndPrioritize(fnOut)
  /\ fnPc' = "twice"
  /\ UNCHANGED <<fnIn, fnOut, appVars>>

NextRank == RankApply \/ RankReapply

SpecRank == InitRank /\ [][NextRank]_vars

(***************************************************************************)
(* Documents handed to the analysis: a title and a body put together from  *)
(* pieces of markup.                                                       *)
(***************************************************************************)
MaxPieces == 2

MarkupPool ==
  { "<h2>Key Features</h2><ul><li>the user can log in with email</li>"
      \o "<li>- Export   all notes as a PDF file</li><li>Share a note with another user</li>"
      \o "<li>Search notes by their title</li><li>Pin important notes on top</li>"
      \o "<li>Archive notes that are old</li></ul>"
      \o "<h2>Core capability set</h2><ul><li>Sync notes between devices</li>"
      \o "<li>Work offline without network</li><li>Restore deleted notes quickly</li>"
      \o "<li>Tag notes with coloured labels</li><li>Print a note on one page</li></ul>",
    "<h2>Project Scope</h2><ol><li>Support at least two languages</li>"
      \o "<li>Enable two-factor authentication</li><li>Keep an audit log of changes</li>"
      \o "<li>Encrypt stored notes at rest</li><li>search notes by their TITLE!</li></ol>",
    "<h1>Overview</h1><p>This page gives the background.</p><li>Nothing to do in this part</li>",
    "<h2>Data Model</h2><p>Kept in localStorage.</p><li>id: string</li><li>balance: number</li>",
    "<h3 class=\"x\">Open points</h3><ul><li>a</li><li>b</li></ul>",
    "<h2>Extra features</h2><ul><li>too short</li><li> </li></ul>",
    "<p>Plain &amp; simple text</p>",
    "<h2>Project Setup</h2><li>src/components</li><li>ESLint rules</li>"
      \o "<h2>REST endpoints</h2><h2>Screens</h2><li>Sidebar - shows folders</li>"
      \o "<li>editor: edits a note</li><h2>Roadmap</h2><li>Dark mode for the editor</li>" }

PageTitles == {"Payments MVP -- Mobile Wallet", "Checkout"}

Bodies == {join(pieces, "") : pieces \in SeqsUpTo(MarkupPool, MaxPieces)}

InitAnalyze ==
  /\ InitApp
  /\ fnIn \in [title : PageTitles, body : Bodies]
  /\ fnOut = <<>>
  /\ fnOut2 = <<>>
  /\ fnPc = "input"

\* fnOut2 holds the items of the sections before the fallback, the ranking
\* and the cut, fnOut the result.
Analyze ==
  /\ fnPc = "input"
  /\ LET parsed == parseConfluenceContent(fnIn.body)
     IN  /\ fnOut' = analyzeDocumentSemantics(parsed, fnIn.title, "KEY")
         /\ fnOut2' = sectionItems(parsed, fnIn.title, "KEY")
  /\ fnPc' = "once"
  /\ UNCHANGED <<fnIn, appVars>>

NextAnalyze == Analyze

SpecAnalyze == InitAnalyze /\ [][NextAnalyze]_vars

(***************************************************************************)
(* Markup bodies handed to the section extractor alone: with and without   *)
(* headings, with text before the first heading, with tags in capitals,    *)
(* attributes, entities and inline markup in a heading, an empty heading,  *)
(* and line ends of the three kinds.                                       *)
(***************************************************************************)
ParsePool ==
  { "<p>Intro &amp; scope</p>",
    "Preface<H1 id=\"t\">Goals &amp; <b>Scope</b></H1>\r\n<ul><li>one</li><li>two</li></ul>",
    "<h2>Data Model</h2><p>Kept in files.</p>",
    "<h3></h3>",
    "<h6> Notes </h6><table><tr><td>a</td></tr></table><code>x = 1</code>",
    "<li>loose item</li>",
    "plain text\r\n\r\n\r\nwith\rlines",
    "<h4>Open\npoints</h4>text" }

ParseBodies == {join(pieces, "") : pieces \in SeqsUpTo(ParsePool, MaxPieces)}

InitParse ==
  /\ InitApp
  /\ fnIn \in ParseBodies
  /\ fnOut = <<>>
  /\ fnOut2 = <<>>
  /\ fnPc = "input"

\* fnOut holds the sections of the body fnIn.
Parse ==
  /\ fnPc = "input"
  /\ fnOut' = parseConfluenceContent(fnIn).sections
  /\ fnPc' = "once"
  /\ UNCHANGED <<fnIn, fnOut2, appVars>>

NextParse == Parse

SpecParse == InitParse /\ [][NextParse]_vars

(***************************************************************************)
(* Items handed to backlogActionHandler one at a time, with the type and   *)
(* priority texts an agent may write: canonical, in another case, inside   *)
(* a phrase, with two keywords at once, unknown, or left out.              *)
(***************************************************************************)
TypeTexts ==
  { "", "Story", "User Story", "BUG", "bugfix for a story", "Epic", "epics",
    "Sub-task", "task", "Improvement", "Bug in epic" }

PriorityTexts ==
  { "", "Highest", "highest", "HIGH", "High priority", "P1 (test high)", "Lowest",
    "lowest", "LOW", "slow", "Medium", "urgent", "highlow" }

\* The type is given as issueType, as type, or as both.
NormalizeInputs ==
  { [RawItem("Add search", "", pr, <<>>) EXCEPT !.issueType = ty[1], !.type = ty[2]] :
      ty \in ({<<t, "">> : t \in TypeTexts} \cup {<<"", t>> : t \in TypeTexts}
               \cup {<<"chore", "Bug">>}),
      pr \in PriorityTexts }

InitNormalize ==
  /\ InitApp
  /\ fnIn \in NormalizeInputs
  /\ fnOut = <<>>
  /\ fnOut2 = <<>>
  /\ fnPc = "input"

\* fnOut holds the items of the entry the handler builds for the one item
\* fnIn.
Normalize ==
  /\ fnPc = "input"
  /\ fnOut' = ingestResultOf([pageId |-> "7", pageTitle |-> PayloadTitle, projectKey |-> "B",
                              analysisSummary |-> ""], <<fnIn>>, 1).issues
  /\ fnPc' = "once"
  /\ UNCHANGED <<fnIn, fnOut2, appVars>>

NextNormalize == Normalize

SpecNormalize == InitNormalize /\ [][NextNormalize]_vars

(***************************************************************************)
(* One section handed to the per-section dispatch, under a document-type   *)
(* tag and under a second tag, with the title of its page: titles that     *)
(* carry the keywords of one group, of two groups, of a skipped section or *)
(* of none, a heading and a page title of some 250 characters, and bullet  *)
(* lists that are empty, start with a short bullet, or hold six bullets.   *)
(***************************************************************************)
Filler64 == "xxxxxxxxxxxxxxxxxxxxxxxxxxxxxxxxxxxxxxxxxxxxxxxxxxxxxxxxxxxxxxxx"
Filler == Filler64 \o Filler64 \o Filler64 \o Filler64

\* s, lengthened to n characters.
padTo(s, n) == s \o SubSeq(Filler, 1, n - Len(s))

SectionTitles ==
  { "Requirements", "Project Scope", "Architecture and Data", "Key Features",
    "Overview of Features", "Login flow", "Roadmap", "Endpoints", "Data model",
    "Screens", "Set", padTo("Checkout ", 246) }

BulletLists ==
  { <<>>,
    <<"Fast login", "Users can reset their password by email",
      "The system exports reports as PDF">>,
    <<"Users can reset their password by email", "Dark mode",
      "Add offline support for notes">>,
    <<"Sidebar with the list of notes", "Editor for the selected note",
      "Header with search field", "Footer with sync status",
      "Modal to confirm deletion", "Button to add a note">>,
    <<"src/components", "ESLint and Prettier">> }

SectionPageTitles == {"Wallet Plan", padTo("Wallet ", 234)}

DocTypePairs == {<<"general", "mvp">>, <<"mvp", "prd">>, <<"prd", "general">>}

SectionOf(title, bullets) ==
  MkSection(2, title,
            [ text |-> join(bullets, " "), bullets |-> bullets, numberedItems |-> <<>>,
              codeBlocks |-> <<>>, tables |-> <<>> ])

InitSection ==
  /\ InitApp
  /\ \E title \in SectionTitles, bullets \in BulletLists, pageTitle \in SectionPageTitles,
        types \in DocTypePairs :
        fnIn = [ section |-> SectionOf(title, bullets), pageTitle |-> pageTitle,
                 docType |-> types[1], otherType |-> types[2] ]
  /\ fnOut = <<>>
  /\ fnOut2 = <<>>
  /\ fnPc = "input"

\* The tag takes part in the choice of the generator: every section of a
\* document tagged "prd" that is not skipped goes to the requirement
\* generator.
sectionOutcomeByTag(in, docType) ==
  LET plainText == in.section.content
      projectName == extractProjectName(in.pageTitle, plainText)
      generated == IF docType = "prd" /\ sectionKind(in.section) # "skip"
                   THEN createRequirementStories(in.section, projectName, "KEY", docType)
                   ELSE analyzeSectionForBacklogItems(in.section, 0, docType, projectName, "KEY")
  IN  [ generated |-> generated,
        issues |-> rankedItems(generated, in.pageTitle, plainText, "KEY") ]

\* The items the section gives under the tag docType, and what
\* analyzeDocumentSemantics returns for a page of this one section.
sectionOutcome(in, docType) ==
  LET plainText == in.section.content
      generated == analyzeSectionForBacklogItems(in.section, 0, docType,
                     extractProjectName(in.pageTitle, plainText), "KEY")
  IN  [ generated |-> generated,
        issues |-> rankedItems(generated, in.pageTitle, plainText, "KEY") ]

Dispatch ==
  /\ fnPc = "input"
  /\ fnOut' = sectionOutcome(fnIn, fnIn.docType)
  /\ fnPc' = "once"
  /\ UNCHANGED <<fnIn, fnOut2, appVars>>

\* The same section again, under the other tag.
Redispatch ==
  /\ fnPc = "once"
  /\ fnOut2' = sectionOutcome(fnIn, fnIn.otherType)
  /\ fnPc' = "twice"
  /\ UNCHANGED <<fnIn, fnOut, appVars>>

NextSection == Dispatch \/ Redispatch

SpecSection == InitSection /\ [][NextSection]_vars

(***************************************************************************)
(* Properties of the ranking step.                                         *)
(***************************************************************************)
\* The rank the specification fixes: Highest < High < Medium < Low < Lowest.
TierRank(p) ==
  CASE p = "Highest" -> 0
    [] p = "High" -> 1
    [] p = "Medium" -> 2
    [] p = "Low" -> 3
    [] p = "Lowest" -> 4

KeysOf(items) == {normalizedTitle(items[i].title) : i \in 1..Len(items)}

FirstWithKey(items, key) ==
  LET hits == {i \in 1..Len(items) : normalizedTitle(items[i].title) = key}
  IN  items[CHOOSE i \in hits : \A j \in hits : i <= j]

\* The items in the order the specification ranks them: by tier, ties in
\* input order.
TierOrdered(items) ==
  LET n == Len(items)
      pos(i) == Cardinality({j \in 1..n :
                   \/ TierRank(items[j].priority) < TierRank(items[i].priority)
                   \/ TierRank(items[j].priority) = TierRank(items[i].priority) /\ j <= i})
  IN  [k \in 1..n |-> items[CHOOSE i \in 1..n : pos(i) = k]]

\* C5: the output of deduplicateAndPrioritize is sorted by the fixed rank
\* Highest < High < Medium < Low < Lowest: no item comes behind an item of a
\* strictly lower tier.
C5_SortedByTier ==
  fnPc = "once" =>
    \A i, j \in 1..Len(fnOut) :
      i < j => TierRank(fnOut[i].priority) <= TierRank(fnOut[j].priority)

\* C6: no two items of the output share a normalized title key, and for every
\* key of the input the item kept is the first one with that key in ranked
\* order (by tier, ties in input order).
C6_KeepsFirstRanked ==
  fnPc = "once" =>
    /\ \A i, j \in 1..Len(fnOut) :
         i # j => normalizedTitle(fnOut[i].title) # normalizedTitle(fnOut[j].title)
    /\ \A key \in KeysOf(fnIn) :
         /\ key \in KeysOf(fnOut)
         /\ FirstWithKey(fnOut, key) = FirstWithKey(TierOrdered(fnIn), key)

\* C7: deduplicateAndPrioritize is idempotent: applied to its own output it
\* returns the same items in the same order.
C7_Idempotent == fnPc = "twice" => fnOut2 = fnOut

\* A run in which the first application both dropped a duplicate and moved
\* an item, and the second application has been made.
C7_Witness ==
  /\ fnPc = "twice"
  /\ Len(fnOut) >= 2
  /\ Len(fnOut) < Len(fnIn)
  /\ fnOut[1] # fnIn[1]

\* The survivors of deduplication in the order the specification ranks them:
\* of the items ordered by tier, the first of each key.
RankedSurvivors(items) ==
  LET ranked == TierOrdered(items)
      IsFirst(i) == \A j \in 1..(i - 1) :
                      normalizedTitle(ranked[j].title) # normalizedTitle(ranked[i].title)
      firsts == {i \in 1..Len(ranked) : IsFirst(i)}
      nth(k) == CHOOSE i \in firsts : Cardinality({j \in firsts : j <= i}) = k
  IN  [k \in 1..Cardinality(firsts) |-> ranked[nth(k)]]

ItemSet(items) == {items[i] : i \in 1..Len(items)}

\* C8: the item list of an analysis has at most 10 items, and the items kept
\* are the first 10 survivors of deduplication in ranked order (by tier, ties
\* in the order the sections produced them).
C8_FirstTenRanked ==
  fnPc = "once" /\ fnOut2 # <<>> =>
    /\ Len(fnOut) <= MaxItems
    /\ ItemSet(fnOut) = ItemSet(take(RankedSurvivors(fnOut2), MaxItems))

\* C9: a document none of whose sections yields an item is analysed to exactly
\* one item, the "Review and implement" story of the page, and the item list
\* of every analysis is non-empty.
C9_FallbackOnly ==
  fnPc = "once" =>
    /\ Len(fnOut) >= 1
    /\ fnOut2 = <<>> =>
          /\ Len(fnOut) = 1
          /\ fnOut[1].title = "Review and implement: " \o fnIn.title
          /\ fnOut[1] = createFallbackStory(fnIn.title,
                           parseConfluenceContent(fnIn.body).plainText, "KEY")

\* An analysed document with sections and list items none of which yields an
\* item.
C9_Witness ==
  /\ fnPc = "once"
  /\ fnOut2 = <<>>
  /\ includes(fnIn.body, "<h2>Extra features</h2>")
  /\ includes(fnIn.body, "<h1>Overview</h1>")

(***************************************************************************)
(* Properties of the resolvers.                                            *)
(***************************************************************************)
\* The createJiraIssues requests that passed the two preconditions.
CreatePassed(r) == req[r].op = "createJiraIssues" /\ req[r].idx >= 1

\* ... whose loop has gone through the whole batch.
CreateLooped(r) == CreatePassed(r) /\ req[r].idx > Len(req[r].payload.issues)

HasReturned(r) == req[r].pc = "done" /\ req[r].threw = ""

\* The k-th smallest element of a set of numbers.
Nth(S, k) == CHOOSE i \in S : Cardinality({j \in S : j <= i}) = k

\* C1: when the loop of createJiraIssues has gone through a batch, whichever
\* items Jira rejected or threw on, every item has been attempted, created
\* holds exactly one entry per item that succeeded and errors exactly one
\* entry per item that failed, the entry naming the item itself, both in
\* input order, so the two lengths add up to the batch size; the outcome
\* returned consists of these two lists.
C1_OutcomePerItem ==
  \A r \in Reqs :
    CreateLooped(r) =>
      LET q == req[r]
          issues == q.payload.issues
          n == Len(issues)
          done == {i \in 1..n : q.outcomes[i] = "ok"}
          failed == (1..n) \ done
      IN  /\ Len(q.outcomes) = n
          /\ Len(jiraCalls[r]) = n
          /\ Len(q.created) = Cardinality(done)
          /\ Len(q.errors) = Cardinality(failed)
          /\ Len(q.created) + Len(q.errors) = n
          /\ \A k \in 1..Len(q.created) :
               /\ q.created[k].summary = issues[Nth(done, k)].title
               /\ q.created[k].key = q.payload.projectKey \o "-" \o ToString(Nth(done, k))
          /\ \A k \in 1..Len(q.errors) : q.errors[k].issue = issues[Nth(failed, k)]
          /\ HasReturned(r) => q.result = [created |-> q.created, errors |-> q.errors]

\* A batch of three whose second item failed has been answered with two
\* created entries and one error.
C1_Witness ==
  \E r \in Reqs :
    /\ CreateLooped(r)
    /\ HasReturned(r)
    /\ req[r].outcomes = <<"ok", "thrown", "ok">>
    /\ Len(req[r].result.created) = 2
    /\ Len(req[r].result.errors) = 1

\* C2: when a createJiraIssues request that passed the preconditions has
\* returned its outcome, whatever items succeeded or failed, the store holds
\* no entry under the key of its page and project.
C2_NoEntryAfterCreate ==
  \A r \in Reqs :
    CreatePassed(r) /\ HasReturned(r) => req[r].entryAfter = Undefined

\* A request all of whose items failed has returned, and its delete found
\* an entry.
C2_Witness ==
  \E r \in Reqs :
    /\ CreatePassed(r)
    /\ HasReturned(r)
    /\ req[r].result.created = <<>>
    /\ Len(req[r].result.errors) = 3
    /\ req[r].removed # Undefined
    /\ store[req[r].storageKey] = Undefined

\* C3: an analyzeConfluencePage request whose cache read finds an entry
\* younger than 3,600,000 ms returns that entry, with the same summary, items
\* and timestamp, marked fromCache, and requests no page from Confluence.
C3_FreshEntryReturned ==
  \A r \in Reqs :
    LET q == req[r]
    IN  (/\ q.op = "analyzeConfluencePage"
         /\ q.cachedData # Undefined
         /\ q.readAt - q.cachedData.timestamp < 3600000)
        => /\ HasReturned(r)
           /\ q.result.fromCache = TRUE
           /\ q.result.summary = q.cachedData.summary
           /\ q.result.issues = q.cachedData.issues
           /\ q.result.timestamp = q.cachedData.timestamp
           /\ q.fetches = 0

\* An analysis stored by one request has been returned by a later one in
\* the last millisecond of its hour.
C3_Witness ==
  \E r \in Reqs :
    /\ req[r].op = "analyzeConfluencePage"
    /\ HasReturned(r)
    /\ req[r].result.fromCache = TRUE
    /\ "raw" \in DOMAIN req[r].result
    /\ req[r].readAt - req[r].result.timestamp = 3600000 - 1
    /\ req[r].fetches = 0

\* The entry a read found is none, or one of 3,600,000 ms or more.
ReadMissed(q) ==
  /\ q.readAt > 0
  /\ \/ q.cachedData = Undefined
     \/ q.readAt - q.cachedData.timestamp >= 3600000

\* C4: an entry whose age is 3,600,000 ms or more counts as absent for the
\* readers.  An analyzeConfluencePage request that finds such an entry, or
\* none (as after clearStoredBacklog), requests the page; if it returns, the
\* result is the analysis of the page it fetched, marked not fromCache, and
\* is the entry of the key when its store call has answered.  A
\* getStoredBacklog request that finds such an entry returns found = false.
C4_ExpiredRecomputed ==
  \A r \in Reqs :
    LET q == req[r]
    IN  /\ (q.op = "analyzeConfluencePage" /\ ReadMissed(q)) =>
             /\ q.fetches = 1
             /\ HasReturned(r) =>
                  /\ q.result.fromCache = FALSE
                  /\ q.result.timestamp >= q.readAt
                  /\ q.result = spread(analysisResultAt(q.pageData, q.payload.pageTitle,
                                         q.payload.projectKey, q.result.timestamp),
                                       [fromCache |-> FALSE])
                  /\ spread(q.entryAfter, [fromCache |-> FALSE]) = q.result
        /\ (q.op = "getStoredBacklog" /\ ReadMissed(q)) =>
             /\ HasReturned(r)
             /\ q.result = [found |-> FALSE]

\* A request that found an entry of exactly 3,600,000 ms has returned a new
\* analysis in its place.
C4_Witness ==
  \E r \in Reqs :
    /\ req[r].op = "analyzeConfluencePage"
    /\ HasReturned(r)
    /\ req[r].cachedData # Undefined
    /\ req[r].readAt - req[r].cachedData.timestamp = 3600000
    /\ req[r].result.fromCache = FALSE
    /\ req[r].result.timestamp > req[r].cachedData.timestamp
    /\ store[req[r].storageKey] = req[r].entryAfter

\* C10: within one createJiraIssues request the creation requests go out in
\* input order, one per item, the next one only when the one before it has
\* been answered or has thrown, so at most one of them is unanswered at any
\* time; when the loop is through, every item has had its request.
C10_OneAtATime ==
  \A r \in Reqs :
    LET calls == jiraCalls[r]
    IN  /\ Cardinality(jiraInFlight[r]) <= 1
        /\ jiraInFlight[r] \subseteq {Len(calls)}
        /\ \A k \in 1..Len(calls) : calls[k].index = k
        /\ CreatePassed(r) =>
             /\ Len(calls) <= Len(req[r].payload.issues)
             /\ Len(req[r].outcomes) = Len(calls) - Cardinality(jiraInFlight[r])
             /\ \A k \in 1..Len(calls) :
                  calls[k].fields = issuePayload(req[r].payload.issues[k],
                                                 req[r].payload.projectKey)
             /\ CreateLooped(r) => Len(calls) = Len(req[r].payload.issues)

\* The request of the third item of a batch is the only unanswered one of
\* its request, while another createJiraIssues request runs beside it.
C10_Witness ==
  \E r, o \in Reqs :
    /\ r # o
    /\ CreatePassed(r)
    /\ Len(jiraCalls[r]) = 3
    /\ jiraInFlight[r] = {3}
    /\ Len(req[r].outcomes) = 2
    /\ CreatePassed(o)
    /\ jiraInFlight[o] # {}

\* C11: a createJiraIssues request that passed the preconditions never
\* rejects: whatever Jira and the store do, the delete of the final
\* invalidation included, it returns an outcome made of the created entries
\* and the per-item errors.
C11_NeverRejects ==
  \A r \in Reqs :
    (CreatePassed(r) /\ req[r].pc = "done") =>
      /\ req[r].threw = ""
      /\ req[r].result = [created |-> req[r].created, errors |-> req[r].errors]

\* C14: a store call that throws does not fail analyzeConfluencePage.  After
\* a failed read the request goes on as on a miss and requests the page;
\* after a failed write it returns the result it computed.
C14_StoreFailuresSoft ==
  \A r \in Reqs :
    LET q == req[r]
    IN  q.op = "analyzeConfluencePage" =>
          /\ q.failedCall = "get" => (q.threw = "" /\ q.fetches = 1)
          /\ q.failedCall = "set" =>
                /\ HasReturned(r)
                /\ q.result = spread(q.analysisResult, [fromCache |-> FALSE])

\* The payloads the preconditions of createJiraIssues turn down.
LacksTargetOrItems(payload) ==
  \/ payload.projectKey = ""
  \/ "issues" \notin DOMAIN payload
  \/ payload.issues = <<>>

\* C12: a createJiraIssues request without project key, without item list or
\* with an empty one fails in the step that starts it, with the message of
\* the precondition; that step sends nothing to Jira and leaves the store as
\* it was, so no entry is invalidated.
C12_RejectedUpFront ==
  [][\A r \in Reqs :
       (/\ req'[r] # req[r]
        /\ req'[r].op = "createJiraIssues"
        /\ LacksTargetOrItems(req'[r].payload))
       => /\ req'[r].pc = "done"
          /\ req'[r].threw = (IF req'[r].payload.projectKey = ""
                              THEN "Project key is required to create issues."
                              ELSE "No issues provided to create.")
          /\ jiraCalls'[r] = <<>>
          /\ jiraInFlight'[r] = {}
          /\ req'[r].removed = Undefined
          /\ store' = store]_vars

\* A request without item list has failed while the store holds an entry
\* under the key of its page and project.
C12_Witness ==
  \E r \in Reqs :
    /\ req[r].op = "createJiraIssues"
    /\ "issues" \notin DOMAIN req[r].payload
    /\ req[r].threw = "No issues provided to create."
    /\ jiraCalls[r] = <<>>
    /\ store[req[r].storageKey] # Undefined

\* The items whose title is empty once trimmed, as the form counts them
\* before it invokes createJiraIssues.
emptyTitles(issues) == SelectSeq(issues, LAMBDA i : trim(i.title) = "")

\* C13: a createJiraIssues request whose batch holds an item with a title
\* that is empty after trimming fails as a whole with a validation error,
\* and no creation request goes out for any item of the batch; in
\* particular none goes out with an empty or a placeholder summary.
C13_NoBlankTitleSent ==
  \A r \in Reqs :
    (/\ req[r].op = "createJiraIssues"
     /\ "issues" \in DOMAIN req[r].payload
     /\ emptyTitles(req[r].payload.issues) # <<>>)
    => /\ req[r].pc = "done"
       /\ req[r].threw # ""
       /\ jiraCalls[r] = <<>>

\* The three cases of a failed fetch.
FetchCase(status) == IF status \in {404, 403} THEN status ELSE 0

FailedStatuses == {res.status : res \in {x \in FetchResponses : ~x.ok}}

\* C15: when Confluence answers the page request of analyzeConfluencePage
\* with a failure, the step that receives the answer ends the request with a
\* message that no status of another of the three cases (404, 403, any
\* other) produces, the request has asked Confluence once, and the step and
\* the request write nothing to the store.
C15_FetchFailureSurfaced ==
  [][\A r \in Reqs :
       (/\ req'[r] # req[r]
        /\ req'[r].op = "analyzeConfluencePage"
        /\ req'[r].fetchStatus \in FailedStatuses)
       => /\ req'[r].pc = "done"
          /\ req'[r].threw # ""
          /\ \A s \in FailedStatuses :
               FetchCase(s) # FetchCase(req'[r].fetchStatus)
                 => fetchErrorMessage(s, req'[r].payload.pageId) # req'[r].threw
          /\ req'[r].fetches = 1
          /\ req'[r].analysisResult = Undefined
          /\ req'[r].entryAfter = Undefined
          /\ store' = store]_vars

\* A request that found an expired entry has been refused the page, and the
\* entry is still the one it read.
C15_Witness ==
  \E r \in Reqs :
    /\ req[r].op = "analyzeConfluencePage"
    /\ req[r].fetchStatus = 403
    /\ req[r].threw = "You don't have permission to access this Confluence page."
    /\ req[r].cachedData # Undefined
    /\ store[req[r].storageKey] = req[r].cachedData

(***************************************************************************)
(* Properties of the section extractor.  The headings of a body are found  *)
(* here by reading the text: a heading opens with "<h", a digit from 1 to  *)
(* 6 and either ">" or attributes, and closes with "</h", the digit, ">".  *)
(***************************************************************************)
HeadingAt(t, i) ==
  /\ i + 3 <= Len(t)
  /\ CharAt(t, i) = "<"
  /\ CharAt(t, i + 1) \in {"h", "H"}
  /\ CharAt(t, i + 2) \in {"1", "2", "3", "4", "5", "6"}
  /\ CharAt(t, i + 3) \in {">"} \cup WhiteSpace

HeadingStarts(t) == {i \in 1..Len(t) : HeadingAt(t, i)}

\* The headings of t in document order: level, the text between the tags,
\* the first position of the heading and the first one behind it.
HeadingsOf(t) ==
  LET starts == HeadingStarts(t)
      openEnd(i) == CHOOSE j \in i..Len(t) :
                      CharAt(t, j) = ">" /\ \A k \in i..(j - 1) : CharAt(t, k) # ">"
      IsClose(i, j) == /\ j + 4 <= Len(t)
                       /\ SubSeq(t, j, j + 1) = "</"
                       /\ CharAt(t, j + 2) \in {"h", "H"}
                       /\ CharAt(t, j + 3) = CharAt(t, i + 2)
                       /\ CharAt(t, j + 4) = ">"
      closeAt(i) == CHOOSE j \in openEnd(i)..Len(t) :
                      IsClose(i, j) /\ \A k \in openEnd(i)..(j - 1) : ~IsClose(i, k)
  IN  [k \in 1..Cardinality(starts) |->
         LET i == Nth(starts, k)
         IN  [ level |-> CHOOSE d \in 1..6 : ToString(d) = CharAt(t, i + 2),
               inner |-> SubSeq(t, openEnd(i) + 1, closeAt(i) - 1),
               first |-> i,
               behind |-> closeAt(i) + 5 ]]

\* C16: a body without heading, the empty body included, yields exactly one
\* section, titled "Main Content" at level 1; for the empty body its
\* bullets, tables and code blocks are empty.
C16_OneMainSection ==
  (fnPc = "once" /\ HeadingStarts(fnIn) = {}) =>
    /\ Len(fnOut) = 1
    /\ fnOut[1].title = "Main Content"
    /\ fnOut[1].level = 1
    /\ fnIn = "" => /\ fnOut[1].bullets = <<>>
                    /\ fnOut[1].tables = <<>>
                    /\ fnOut[1].codeBlocks = <<>>

\* C17: a body with N >= 1 well-formed headings yields N sections in
\* document order; the i-th has the level of the i-th heading, as title its
\* text without markup, and as content what parseSectionContent makes of the
\* markup from behind that heading up to the next heading or the end of the
\* body, line ends being normalised to "\n" first.
C17_SectionPerHeading ==
  LET t == normalizeLineEnds(fnIn)
      hs == HeadingsOf(t)
      n == Len(hs)
  IN  (fnPc = "once" /\ n >= 1) =>
        /\ Len(fnOut) = n
        /\ \A i \in 1..n :
             LET body == SubSeq(t, hs[i].behind,
                                IF i < n THEN hs[i + 1].first - 1 ELSE Len(t))
                 sc == parseSectionContent(body)
             IN  /\ fnOut[i].level = hs[i].level
                 /\ fnOut[i].title = trim(stripHtml(hs[i].inner))
                 /\ fnOut[i].content = sc.text
                 /\ fnOut[i].bullets = sc.bullets
                 /\ fnOut[i].codeBlocks = sc.codeBlocks
                 /\ fnOut[i].tables = sc.tables

\* Text before the first heading, a heading in capitals with an attribute, an entity and
\* inline markup, and a second heading: two sections, the first titled by
\* the plain text of its heading and holding the two list items.
C17_Witness ==
  /\ fnPc = "once"
  /\ startsWith(fnIn, "Preface<H1")
  /\ Len(fnOut) = 2
  /\ fnOut[1].level = 1
  /\ fnOut[1].title = "Goals & Scope"
  /\ fnOut[1].bullets = <<"one", "two">>
  /\ fnOut[2].level = 6
  /\ fnOut[2].title = "Notes"
  /\ fnOut[2].tables # <<>>

(***************************************************************************)
(* Properties of the action handler.                                       *)
(***************************************************************************)
\* The type text the handler reads: issueType, else type, else "Task".
GivenType(issue) ==
  IF issue.issueType # "" THEN issue.issueType
  ELSE IF issue.type # "" THEN issue.type ELSE "Task"

GivenPriority(issue) == IF issue.priority # "" THEN issue.priority ELSE "Medium"

Mentions(text, word) == includes(toLowerCase(text), word)

\* C18: the item the action handler stores has a type among Story, Task,
\* Bug, Epic and a priority among Highest, High, Medium, Low, Lowest.  A
\* canonical text is kept; another type becomes Story, Bug or Epic if its
\* lower-cased text contains "story", "bug" or "epic", tried in that order,
\* and Task otherwise; another priority containing "high" becomes Highest
\* if it also contains "est" and High if not, one containing "low" becomes
\* Lowest or Low likewise, and any other becomes Medium.
C18_CanonicalTypeAndPriority ==
  fnPc = "once" =>
    LET ty == GivenType(fnIn)
        pr == GivenPriority(fnIn)
    IN  /\ Len(fnOut) = 1
        /\ fnOut[1].issueType \in {"Story", "Task", "Bug", "Epic"}
        /\ fnOut[1].priority \in {"Highest", "High", "Medium", "Low", "Lowest"}
        /\ fnOut[1].issueType =
             (CASE ty \in {"Story", "Task", "Bug", "Epic"} -> ty
                [] OTHER -> IF Mentions(ty, "story") THEN "Story"
                            ELSE IF Mentions(ty, "bug") THEN "Bug"
                            ELSE IF Mentions(ty, "epic") THEN "Epic"
                            ELSE "Task")
        /\ fnOut[1].priority =
             (CASE pr \in {"Highest", "High", "Medium", "Low", "Lowest"} -> pr
                [] Mentions(pr, "high") /\ Mentions(pr, "est") -> "Highest"
                [] Mentions(pr, "high") /\ ~Mentions(pr, "est") -> "High"
                [] ~Mentions(pr, "high") /\ Mentions(pr, "low") /\ Mentions(pr, "est") -> "Lowest"
                [] ~Mentions(pr, "high") /\ Mentions(pr, "low") /\ ~Mentions(pr, "est") -> "Low"
                [] OTHER -> "Medium")

\* An item typed "bugfix for a story" with the priority "lowest" has been
\* stored as a Story of priority Lowest.
C18_Witness ==
  /\ fnPc = "once"
  /\ fnIn.type = "bugfix for a story"
  /\ fnIn.priority = "lowest"
  /\ fnOut[1].issueType = "Story"
  /\ fnOut[1].priority = "Lowest"

IsJsonArray(parsed) == parsed.ok /\ parsed.value.t = "array"

\* The requests the action handler has to turn down: an input is missing,
\* or the items are neither an array nor a text that is JSON of an array.
InvalidIngest(inputs) ==
  \/ inputs.pageId = "" \/ inputs.pageTitle = "" \/ inputs.projectKey = ""
  \/ inputs.backlogItems = Undefined
  \/ inputs.backlogItems.kind \notin {"array", "string"}
  \/ /\ inputs.backlogItems.kind = "string"
     /\ ~IsJsonArray(JSONparse(inputs.backlogItems.value))

\* C19: a backlogActionHandler request that is invalid (an input missing,
\* items that are neither an array nor parseable JSON, JSON that is no
\* array) is answered with success false and an error message, and writes
\* nothing to the store.
C19_InvalidIngestRefused ==
  \A r \in Reqs :
    (req[r].op = "backlogActionHandler" /\ InvalidIngest(req[r].payload)) =>
      /\ req[r].pc = "done"
      /\ req[r].result.success = FALSE
      /\ req[r].result.error # ""
      /\ req[r].analysisResult = Undefined
      /\ req[r].entryAfter = Undefined

\* C20: every entry of the store, whether analyzeConfluencePage or the
\* action handler wrote it, holds at most 10 items.
C20_AtMostTenStored ==
  \A k \in StorageKeys : store[k] # Undefined => Len(store[k].issues) <= 10

(***************************************************************************)
(* Properties of the per-section dispatch and of the generators.           *)
(***************************************************************************)

\* C21: every work item of an analysis result has a title of at most 255
\* characters, whatever the length of the section heading, of the bullets
\* and of the page title.
C21_TitleWithinLimit ==
  fnPc # "input" =>
    \A i \in 1..Len(fnOut.issues) : Len(fnOut.issues[i].title) <= SummaryMax

\* The keyword groups in the order of their priority, and the words of a
\* section that is not actionable.
GroupOrder == <<"setup", "data", "ui", "api", "feature", "requirement", "future">>

GroupWords ==
  [ setup |-> {"structure", "folder", "architecture", "setup", "tooling"},
    data |-> {"data", "model", "storage", "database", "persistence"},
    ui |-> {"component", "ui", "interface", "view", "screen"},
    api |-> {"api", "endpoint", "service", "integration"},
    feature |-> {"feature", "functionality", "capability"},
    requirement |-> {"requirement", "scope"},
    future |-> {"future", "roadmap", "backlog", "nice to have"} ]

NonActionable ==
  {"overview", "introduction", "background", "summary", "table of contents", "version history"}

\* The positions in GroupOrder of the groups a keyword of which occurs in
\* the lower-cased title.
GroupsIn(title) ==
  {g \in 1..Len(GroupOrder) :
     \E w \in GroupWords[GroupOrder[g]] : includes(toLowerCase(title), w)}

\* What the generator of a group makes of the section.
GeneratedBy(group, section, projectName, docType) ==
  CASE group = "setup" -> <<createSetupStory(section, projectName, "KEY", docType)>>
    [] group = "data" -> <<createDataModelStory(section, projectName, "KEY", docType)>>
    [] group = "ui" -> createUIComponentStories(section, projectName, "KEY", docType)
    [] group = "api" -> <<createAPIStory(section, projectName, "KEY", docType)>>
    [] group = "feature" -> createFeatureStories(section, projectName, "KEY", docType)
    [] group = "requirement" -> createRequirementStories(section, projectName, "KEY", docType)
    [] group = "future" -> createFutureStories(section, projectName, "KEY", docType)

SectionProject == extractProjectName(fnIn.pageTitle, fnIn.section.content)

\* C23: a section whose title holds a non-actionable word gives no items;
\* any other section gives what the generator of the first group, in the
\* order setup, data, UI, API, feature, requirement, future, with a keyword
\* in the title makes of it, and what the generic bullet analyzer makes of
\* it only when no group has a keyword in the title.
C23_FirstGroupWins ==
  fnPc # "input" =>
    LET section == fnIn.section
        groups == GroupsIn(section.title)
    IN  IF \E w \in NonActionable : includes(toLowerCase(section.title), w)
          THEN fnOut.generated = <<>>
        ELSE IF groups # {}
          THEN fnOut.generated =
                 GeneratedBy(GroupOrder[CHOOSE g \in groups : \A h \in groups : g <= h],
                             section, SectionProject, fnIn.docType)
        ELSE fnOut.generated =
               analyzeBulletsForStories(section, SectionProject, "KEY", fnIn.docType)

\* A section titled with a word of the setup group and a word of the data
\* group has gone through the dispatch and has given the setup story alone.
C23_Witness ==
  /\ fnPc # "input"
  /\ Cardinality(GroupsIn(fnIn.section.title)) >= 2
  /\ {1, 2} \subseteq GroupsIn(fnIn.section.title)
  /\ Len(fnOut.generated) = 1
  /\ startsWith(fnOut.generated[1].title, "Set up ")

\* The bullets a per-bullet generator looks at and does not pass over: those
\* among the first five that have 15 characters or more.
Qualifying(bullets) ==
  {k \in 1..Len(bullets) : k <= 5 /\ Len(bullets[k]) >= MinBulletLen}

IsSkipped(section) ==
  \E w \in NonActionable : includes(toLowerCase(section.title), w)

\* C24: a section that is not skipped and whose title holds the keyword
\* "requirement" gives one item per qualifying bullet, five at most, each a
\* Story of priority High with the label "requirement".
C24_RequirementSection ==
  (/\ fnPc # "input"
   /\ ~IsSkipped(fnIn.section)
   /\ includes(toLowerCase(fnIn.section.title), "requirement"))
  => /\ Len(fnOut.generated) <= 5
     /\ Len(fnOut.generated) = Cardinality(Qualifying(fnIn.section.bullets))
     /\ \A i \in 1..Len(fnOut.generated) :
          /\ fnOut.generated[i].issueType = "Story"
          /\ fnOut.generated[i].priority = "High"
          /\ \E l \in 1..Len(fnOut.generated[i].labels) :
               fnOut.generated[i].labels[l] = "requirement"

\* The section goes to the generator of the feature group.
IsFeatureSection(section) ==
  /\ ~IsSkipped(section)
  /\ GroupsIn(section.title) # {}
  /\ \A g \in GroupsIn(section.title) : GroupOrder[g] \in {"feature", "requirement", "future"}
  /\ \E g \in GroupsIn(section.title) : GroupOrder[g] = "feature"

\* C25: when the feature generator gives items for a section, the first of
\* them has priority High and every later one Medium, also when the section
\* starts with bullets of fewer than 15 characters, which are passed over.
C25_FirstFeatureHigh ==
  (fnPc # "input" /\ IsFeatureSection(fnIn.section) /\ Len(fnOut.generated) >= 1)
  => /\ fnOut.generated[1].priority = "High"
     /\ \A i \in 2..Len(fnOut.generated) : fnOut.generated[i].priority = "Medium"

\* Two item lists agree in length and, position by position, in title,
\* type and priority.
SameItems(a, b) ==
  /\ Len(a) = Len(b)
  /\ \A i \in 1..Len(a) :
       /\ a[i].title = b[i].title
       /\ a[i].issueType = b[i].issueType
       /\ a[i].priority = b[i].priority

\* C26: the document-type tag has no part in which items are generated: the
\* same section under the same project name and two different tags gives
\* item lists of the same length that agree position by position in title,
\* type and priority, before and after the ranking.
C26_TagChangesWordingOnly ==
  fnPc = "twice" =>
    /\ SameItems(fnOut.generated, fnOut2.generated)
    /\ SameItems(fnOut.issues, fnOut2.issues)

\* A section has been dispatched under two tags and the items differ, in
\* their description or their labels.
C26_Witness ==
  /\ fnPc = "twice"
  /\ fnIn.docType # fnIn.otherType
  /\ Len(fnOut.generated) >= 1
  /\ fnOut.generated # fnOut2.generated

(***************************************************************************)
(* Properties of the creation requests.                                    *)
(***************************************************************************)

\* C22: in every creation request sent to Jira the labels hold no empty
\* string and no label twice, whether the item carried them as an array or
\* as a text with commas.
C22_LabelsCleanAndUnique ==
  \A r \in Reqs : \A k \in 1..Len(jiraCalls[r]) :
    LET fields == jiraCalls[r][k].fields
    IN  "labels" \in DOMAIN fields =>
          /\ \A i \in 1..Len(fields.labels) : fields.labels[i] # ""
          /\ \A i, j \in 1..Len(fields.labels) : fields.labels[i] = fields.labels[j] => i = j

(***************************************************************************)
(* Properties of the store.                                                *)
(***************************************************************************)

\* The request of slot r is a reader in this state: a getStoredBacklog, or
\* an analyzeConfluencePage about to read its entry.
IsReading(r) ==
  \/ req[r].op = "getStoredBacklog" /\ req[r].pc = "get"
  \/ req[r].op = "analyzeConfluencePage" /\ req[r].pc = "get"

\* The request of slot r waits for a storage.set or a storage.delete.
IsWriting(r) ==
  /\ req[r].pc \in {"set", "delete"}
  /\ req[r].op \in {"analyzeConfluencePage", "backlogActionHandler", "clearStoredBacklog",
                    "createJiraIssues"}

\* C27: reading never changes the store.  The step in which getStoredBacklog
\* or analyzeConfluencePage reads its entry, valid or expired, leaves every
\* entry as it is, and so does the passing of time: an entry changes only in
\* the step in which an analysis or an ingestion writes its key or a
\* clearStoredBacklog or createJiraIssues deletes it.
C27_ReadsLeaveStore ==
  [][ /\ \A r \in Reqs : (IsReading(r) /\ req'[r] # req[r]) => store' = store
      /\ now' # now => store' = store
      /\ store' # store =>
            \E r \in Reqs :
              /\ IsWriting(r)
              /\ req'[r].pc = "done"
              /\ \A k \in StorageKeys : k # req[r].storageKey => store'[k] = store[k] ]_vars

\* A getStoredBacklog has found an expired entry and answered found = false,
\* and the entry is still in the store.
C27_Witness ==
  \E r \in Reqs :
    /\ req[r].op = "getStoredBacklog"
    /\ HasReturned(r)
    /\ req[r].result.found = FALSE
    /\ req[r].cachedData # Undefined
    /\ req[r].readAt - req[r].cachedData.timestamp >= CacheTtlMs
    /\ store[req[r].storageKey] = req[r].cachedData

ReadFreshIngested(q) ==
  /\ q.op \in {"analyzeConfluencePage", "getStoredBacklog"}
  /\ q.cachedData # Undefined
  /\ "source" \in DOMAIN q.cachedData
  /\ q.cachedData.pageId = q.payload.pageId
  /\ q.cachedData.projectKey = q.payload.projectKey
  /\ q.readAt - q.cachedData.timestamp < CacheTtlMs

\* C29: backlogActionHandler stamps the entry it builds with the time of
\* the call, and when it answers success the entry has replaced whatever its
\* key held.  An analyzeConfluencePage or getStoredBacklog for the same page
\* and project that reads this entry less than 3,600,000 ms after its time
\* stamp returns the ingested items, with fromCache = true or found = true,
\* and requests no page from Confluence.
C29_IngestedServedForAnHour ==
  [][ \A r \in Reqs :
        LET q == req'[r]
        IN  /\ (q.op = "backlogActionHandler" /\ q.pc = "set" /\ req[r].pc # "set")
                => q.analysisResult.timestamp = now
            /\ (req[r].op = "backlogActionHandler" /\ req[r].pc = "set"
                   /\ q.pc = "done" /\ q.result.success)
                => store'[q.storageKey] = req[r].analysisResult
            /\ ReadFreshIngested(q)
                => /\ q.pc = "done"
                   /\ q.threw = ""
                   /\ q.fetches = 0
                   /\ q.op = "analyzeConfluencePage" =>
                        /\ q.result.fromCache = TRUE
                        /\ q.result.issues = q.cachedData.issues
                   /\ q.op = "getStoredBacklog" =>
                        /\ q.result.found = TRUE
                        /\ q.result.data = q.cachedData ]_vars

\* An analysis request has been answered from an ingested entry in the last
\* millisecond of its hour.
C29_Witness ==
  \E r \in Reqs :
    /\ req[r].op = "analyzeConfluencePage"
    /\ HasReturned(r)
    /\ ReadFreshIngested(req[r])
    /\ req[r].readAt - req[r].cachedData.timestamp = CacheTtlMs - 1
    /\ req[r].result.fromCache = TRUE
    /\ req[r].result.source = "rovo-agent"
    /\ Len(req[r].result.issues) >= 1

\* The entry was stored by backlogActionHandler, which records the page and
\* the project it was handed, and these are not the page and project of the
\* payload.
OfOtherPair(entry, payload) ==
  /\ entry # Undefined
  /\ "source" \in DOMAIN entry
  /\ <<entry.pageId, entry.projectKey>> # <<payload.pageId, payload.projectKey>>

\* C30: the entries of different pairs of page and project are apart: no
\* analyzeConfluencePage or getStoredBacklog returns an entry stored for
\* another pair, and no clearStoredBacklog or createJiraIssues removes one.
C30_PairsIsolated ==
  \A r \in Reqs :
    LET q == req[r]
    IN  /\ (q.op = "analyzeConfluencePage" /\ HasReturned(r) /\ q.result.fromCache)
            => ~OfOtherPair(q.cachedData, q.payload)
        /\ (q.op = "getStoredBacklog" /\ HasReturned(r) /\ q.result.found)
            => ~OfOtherPair(q.result.data, q.payload)
        /\ (q.op \in {"clearStoredBacklog", "createJiraIssues"} /\ HasReturned(r))
            => ~OfOtherPair(q.removed, q.payload)
====
